---- MODULE Spec2Model ----
(***************************************************************************)
(* Requirements-to-test pipeline: RequirementsParser (extraction and the   *)
(* sub-requirement hierarchy), TestCodeGenerator._create_method_name and   *)
(* TestRunner (run_tests / _parse_pytest_output).                          *)
(*                                                                         *)
(* Python strings are modelled as sequences of one-character strings, so   *)
(* that splitting, stripping, case folding, substring tests and id         *)
(* formatting are computed and not assumed.                                *)
(***************************************************************************)
EXTENDS Integers, Sequences, FiniteSets, TLC

VARIABLES
    \* RequirementsParser / hierarchy
    text,           \* the text last given to extract_requirements
    forest,         \* the list extract_requirements returned, mutated in place
    lastReturn,     \* what the last hierarchy operation returned
    query,          \* what a query made on the forest as it is now returned
    \* TestRunner.run_tests
    pc,             \* position inside run_tests
    requirements,   \* the requirements argument of the current call
    callback,       \* whether progress_callback was passed
    proc,           \* what subprocess.run did: outcome, output lines, returncode
    results,        \* the local dict `results` of run_tests
    parse,          \* the frame of _parse_pytest_output: its results, loop state
    tempFile,       \* the temporary file: "none", "exists", "deleted", "unlink_failed"
    pending,        \* the exception in flight, or NoExc
    caught,         \* the exception an except clause of run_tests caught, or NoExc
    progress,       \* the calls progress_callback received
    \* method-name derivation
    nameReq,        \* a requirement record given to generator and runner
    genName,        \* the method name written into the generated source
    runName,        \* the method name the runner's reverse lookup is keyed by
    rawSentence,    \* a sentence handed to the parser's text functions
    \* TestCodeGenerator.generate_pytest_code and the suite it writes
    suiteReqs,      \* the flat requirement list given to generate_pytest_code
    code,           \* the lines of the returned source, or NotGenerated
    credentials,    \* a username and a password given to _authenticate_user
    authResult,     \* what _authenticate_user returned for them, or NotCalled
    asserted,       \* the values of the assert statements of the Security body
    \* MainFrame and RequirementsPanel
    current_requirements,   \* MainFrame.current_requirements
    panel_requirements,     \* RequirementsPanel.requirements
    test_code_text,         \* whether the test code control holds a suite
    run_tests_btn,          \* whether the Run Tests button is enabled
    progress_dlg,           \* MainFrame.progress_dlg: NoDialog or a dialog
    threads,                \* the worker thread of each run started
    callAfter,              \* calls posted with wx.CallAfter, oldest first
    runs                    \* each run started: outstanding, cancelled, delivered

forestVars == <<text, forest, lastReturn, query>>
runVars == <<pc, requirements, callback, proc, results, parse, tempFile,
             pending, caught, progress>>
nameVars == <<nameReq, genName, runName, rawSentence>>
suiteVars == <<suiteReqs, code, credentials, authResult, asserted>>
frameVars == <<current_requirements, panel_requirements, test_code_text,
               run_tests_btn, progress_dlg, threads, callAfter, runs>>
vars == <<forestVars, runVars, nameVars, suiteVars, frameVars>>

----------------------------------------------------------------------------
(* Bounds of the model *)

\* nodes a forest may hold before add_sub_requirement is no longer offered
MaxNodes == 4
\* nesting depth (number of dots in an id) add_sub_requirement is offered to
MaxDepth == 2
\* characters a requirement text may carry before its run of padding letters
MaxAffix == 2
\* requirements passed to one call of run_tests
MaxReqs == 2
\* lines of output the external process writes
MaxLines == 3

----------------------------------------------------------------------------
(* Python str primitives *)

UpperChars == <<"A", "B", "C", "D", "E", "F", "G", "H", "I", "J", "K", "L", "M", "N", "O", "P", "Q", "R", "S", "T", "U", "V", "W", "X", "Y", "Z">>
LowerChars == <<"a", "b", "c", "d", "e", "f", "g", "h", "i", "j", "k", "l", "m", "n", "o", "p", "q", "r", "s", "t", "u", "v", "w", "x", "y", "z">>
DigitChars == <<"0", "1", "2", "3", "4", "5", "6", "7", "8", "9">>

\* one character outside ASCII: U+017F, the long s, a letter that is its own
\* lower case and whose upper case is "S"
LongS == "U+017F"

Range(s) == {s[i] : i \in DOMAIN s}

IsUpper(c) == c \in Range(UpperChars)
IsLower(c) == c \in Range(LowerChars)
IsDigit(c) == c \in Range(DigitChars)
\* str.split() / str.strip() / regex \s
IsSpace(c) == c \in {" ", "\t", "\n", "\r", "\f"}
\* regex \w
IsWord(c) == IsUpper(c) \/ IsLower(c) \/ IsDigit(c) \/ c = "_" \/ c = LongS

IndexIn(s, c) == CHOOSE i \in DOMAIN s : s[i] = c

LowerChar(c) == IF IsUpper(c) THEN LowerChars[IndexIn(UpperChars, c)] ELSE c
UpperChar(c) ==
    IF c = LongS THEN "S"
    ELSE IF IsLower(c) THEN UpperChars[IndexIn(LowerChars, c)] ELSE c

\* str.lower()
StrLower(s) == [i \in DOMAIN s |-> LowerChar(s[i])]

\* `sub in s`
Contains(s, sub) ==
    \E i \in 0..(Len(s) - Len(sub)) : SubSeq(s, i + 1, i + Len(sub)) = sub

\* str.endswith
EndsWith(s, suf) ==
    Len(s) >= Len(suf) /\ SubSeq(s, Len(s) - Len(suf) + 1, Len(s)) = suf

\* str.strip()
Strip(s) ==
    LET keep == {i \in DOMAIN s : ~IsSpace(s[i])}
    IN  IF keep = {} THEN <<>>
        ELSE LET lo == CHOOSE i \in keep : \A j \in keep : i <= j
                 hi == CHOOSE i \in keep : \A j \in keep : i >= j
             IN  SubSeq(s, lo, hi)

\* ' '.join(s.split()): words separated by single spaces
JoinSplit(s) ==
    LET t == Strip(s)
        joined == [i \in 1..Len(t) |->
                      IF ~IsSpace(t[i]) THEN t[i]
                      ELSE IF IsSpace(t[i - 1]) THEN "" ELSE " "]
    IN  SelectSeq(joined, LAMBDA c : c # "")

\* str(n) for n >= 0
RECURSIVE Dec(_)
Dec(n) == IF n < 10 THEN <<DigitChars[n + 1]>>
          ELSE Append(Dec(n \div 10), DigitChars[(n % 10) + 1])

\* f'{n:03d}'
Fmt03d(n) ==
    LET d == Dec(n)
    IN  IF Len(d) >= 3 THEN d
        ELSE [i \in 1..(3 - Len(d)) |-> "0"] \o d

----------------------------------------------------------------------------
(* RequirementsParser *)

requirement_keywords == <<
    <<"s", "h", "o", "u", "l", "d">>, <<"m", "u", "s", "t">>, <<"s", "h", "a", "l", "l">>, <<"w", "i", "l", "l">>, <<"n", "e", "e", "d", "s", " ", "t", "o">>, <<"r", "e", "q", "u", "i", "r", "e", "d", " ", "t", "o">>,
    <<"h", "a", "s", " ", "t", "o">>, <<"o", "u", "g", "h", "t", " ", "t", "o">>, <<"i", "s", " ", "r", "e", "q", "u", "i", "r", "e", "d">>, <<"i", "s", " ", "e", "x", "p", "e", "c", "t", "e", "d">>, <<"v", "a", "l", "i", "d", "a", "t", "e", "s">>,
    <<"e", "n", "s", "u", "r", "e", "s">>, <<"v", "e", "r", "i", "f", "i", "e", "s">>, <<"c", "h", "e", "c", "k", "s">>, <<"p", "r", "e", "v", "e", "n", "t", "s">>, <<"a", "l", "l", "o", "w", "s">>, <<"e", "n", "a", "b", "l", "e", "s">> >>

AnyIn(words, s) == \E k \in DOMAIN words : Contains(s, words[k])

_clean_requirement(sentence) ==
    LET s1 == JoinSplit(sentence)
        s2 == IF s1 # <<>> THEN <<UpperChar(s1[1])>> \o Tail(s1) ELSE s1
    IN  IF s2 # <<>> /\ ~EndsWith(s2, <<".">>) THEN Append(s2, ".") ELSE s2

\* the Security rule tested before the others
CategorizeSecurityFirst(sentence) ==
    LET sentence_lower == StrLower(sentence)
    IN  IF AnyIn(<<<<"s", "e", "c", "u", "r", "i", "t", "y">>, <<"a", "u", "t", "h", "e", "n", "t", "i", "c", "a", "t", "e">>, <<"a", "u", "t", "h", "o", "r", "i", "z", "e">>>>, sentence_lower)
            THEN "Security"
        ELSE IF AnyIn(<<<<"v", "a", "l", "i", "d", "a", "t", "e">>, <<"c", "h", "e", "c", "k">>, <<"v", "e", "r", "i", "f", "y">>, <<"e", "n", "s", "u", "r", "e">>>>, sentence_lower)
            THEN "Validation"
        ELSE IF AnyIn(<<<<"i", "n", "p", "u", "t">>, <<"e", "n", "t", "e", "r">>, <<"p", "r", "o", "v", "i", "d", "e">>>>, sentence_lower)
            THEN "Input"
        ELSE IF AnyIn(<<<<"o", "u", "t", "p", "u", "t">>, <<"d", "i", "s", "p", "l", "a", "y">>, <<"s", "h", "o", "w">>, <<"r", "e", "t", "u", "r", "n">>>>, sentence_lower)
            THEN "Output"
        ELSE IF AnyIn(<<<<"p", "e", "r", "f", "o", "r", "m", "a", "n", "c", "e">>, <<"s", "p", "e", "e", "d">>, <<"f", "a", "s", "t">>, <<"t", "i", "m", "e">>>>, sentence_lower)
            THEN "Performance"
        ELSE "Functional"

_categorize_requirement(sentence) ==
    LET sentence_lower == StrLower(sentence)
    IN  IF AnyIn(<<<<"v", "a", "l", "i", "d", "a", "t", "e">>, <<"c", "h", "e", "c", "k">>, <<"v", "e", "r", "i", "f", "y">>, <<"e", "n", "s", "u", "r", "e">>>>, sentence_lower)
            THEN "Validation"
        ELSE IF AnyIn(<<<<"i", "n", "p", "u", "t">>, <<"e", "n", "t", "e", "r">>, <<"p", "r", "o", "v", "i", "d", "e">>>>, sentence_lower)
            THEN "Input"
        ELSE IF AnyIn(<<<<"o", "u", "t", "p", "u", "t">>, <<"d", "i", "s", "p", "l", "a", "y">>, <<"s", "h", "o", "w">>, <<"r", "e", "t", "u", "r", "n">>>>, sentence_lower)
            THEN "Output"
        ELSE IF AnyIn(<<<<"s", "e", "c", "u", "r", "i", "t", "y">>, <<"a", "u", "t", "h", "e", "n", "t", "i", "c", "a", "t", "e">>, <<"a", "u", "t", "h", "o", "r", "i", "z", "e">>>>, sentence_lower)
            THEN "Security"
        ELSE IF AnyIn(<<<<"p", "e", "r", "f", "o", "r", "m", "a", "n", "c", "e">>, <<"s", "p", "e", "e", "d">>, <<"f", "a", "s", "t">>, <<"t", "i", "m", "e">>>>, sentence_lower)
            THEN "Performance"
        ELSE "Functional"

\* re.split(r'[.!?]+', text)
IsTerminator(c) == c \in {".", "!", "?"}

RECURSIVE SplitSentences(_, _, _, _)
SplitSentences(s, i, pieces, cur) ==
    IF i > Len(s) THEN Append(pieces, cur)
    ELSE LET turns == {j \in i..Len(s) : IsTerminator(s[j]) # IsTerminator(s[i])}
             next == IF turns = {} THEN Len(s) + 1
                     ELSE CHOOSE j \in turns : \A k \in turns : j <= k
         IN  IF IsTerminator(s[i])
             THEN IF i > 1 /\ IsTerminator(s[i - 1])
                  THEN SplitSentences(s, next, pieces, cur)
                  ELSE SplitSentences(s, next, Append(pieces, cur), <<>>)
             ELSE SplitSentences(s, next, pieces, cur \o SubSeq(s, i, next - 1))

RootId(i) == <<"R", "E", "Q", "_">> \o Fmt03d(i)

\* the keyword test with the .lower() left out
HasKeywordCaseSensitive(sentence) == AnyIn(requirement_keywords, sentence)

\* any(keyword in sentence.lower() for keyword in self.requirement_keywords)
HasKeyword(sentence) == AnyIn(requirement_keywords, StrLower(sentence))

\* the loop with the records numbered by their position in the output
RECURSIVE ExtractNumberingKept(_, _, _)
ExtractNumberingKept(sentences, i, acc) ==
    IF i > Len(sentences) THEN acc
    ELSE LET sentence == Strip(sentences[i])
             clean_sentence == _clean_requirement(sentence)
         IN  IF sentence # <<>> /\ HasKeyword(sentence) /\ clean_sentence # <<>>
             THEN ExtractNumberingKept(sentences, i + 1, Append(acc,
                    [id |-> RootId(Len(acc) + 1),
                     text |-> clean_sentence,
                     category |-> _categorize_requirement(clean_sentence),
                     checked |-> FALSE,
                     sub_requirements |-> <<>>]))
             ELSE ExtractNumberingKept(sentences, i + 1, acc)

RECURSIVE ExtractFrom(_, _, _)
ExtractFrom(sentences, i, acc) ==
    IF i > Len(sentences) THEN acc
    ELSE LET sentence == Strip(sentences[i])
             clean_sentence == _clean_requirement(sentence)
         IN  IF sentence # <<>>
                /\ HasKeyword(sentence)
                /\ clean_sentence # <<>>
             THEN ExtractFrom(sentences, i + 1, Append(acc,
                    [id |-> RootId(i),
                     text |-> clean_sentence,
                     category |-> _categorize_requirement(clean_sentence),
                     checked |-> FALSE,
                     sub_requirements |-> <<>>]))
             ELSE ExtractFrom(sentences, i + 1, acc)

extract_requirements(t) == ExtractFrom(SplitSentences(t, 1, <<>>, <<>>), 1, <<>>)

HasSubs(req) == "sub_requirements" \in DOMAIN req

\* req[k] = v on a dict: the key is created when absent
SetField(req, k, v) == [f \in DOMAIN req \cup {k} |-> IF f = k THEN v ELSE req[f]]

\* insert(0, sub_req) in place of append: the new record becomes the first child
AddAsFirstChild(parent_req, sub_text) ==
    LET p0 == IF HasSubs(parent_req) THEN parent_req
              ELSE SetField(parent_req, "sub_requirements", <<>>)
        sub_req == [id |-> p0.id \o <<".">> \o Dec(Len(p0.sub_requirements) + 1),
                    text |-> _clean_requirement(sub_text),
                    category |-> _categorize_requirement(sub_text),
                    checked |-> FALSE,
                    parent_id |-> p0.id,
                    sub_requirements |-> <<>>]
    IN  [parent |-> [p0 EXCEPT !.sub_requirements = <<sub_req>> \o @],
         ret |-> sub_req]

\* the mutated parent_req and the returned sub_req
add_sub_requirement(parent_req, sub_text) ==
    LET p0 == IF HasSubs(parent_req) THEN parent_req
              ELSE SetField(parent_req, "sub_requirements", <<>>)
        sub_id == p0.id \o <<".">> \o Dec(Len(p0.sub_requirements) + 1)
        sub_req == [id |-> sub_id,
                    text |-> _clean_requirement(sub_text),
                    category |-> _categorize_requirement(sub_text),
                    checked |-> FALSE,
                    parent_id |-> p0.id,
                    sub_requirements |-> <<>>]
    IN  [parent |-> [p0 EXCEPT !.sub_requirements = Append(@, sub_req)],
         ret |-> sub_req]

\* one level of the renumbering loop, without the recursive call
RenumberNoCascade(parent_req) ==
    IF ~HasSubs(parent_req) THEN parent_req
    ELSE [parent_req EXCEPT !.sub_requirements =
            [i \in DOMAIN @ |->
                SetField(SetField(@[i], "id", parent_req.id \o <<".">> \o Dec(i)),
                         "parent_id", parent_req.id)]]

RECURSIVE _renumber_sub_requirements(_)
_renumber_sub_requirements(parent_req) ==
    IF ~HasSubs(parent_req) THEN parent_req
    ELSE [parent_req EXCEPT !.sub_requirements =
            [i \in DOMAIN @ |->
                LET new_id == parent_req.id \o <<".">> \o Dec(i)
                    sub_req == SetField(SetField(@[i], "id", new_id),
                                        "parent_id", parent_req.id)
                IN  IF HasSubs(sub_req) /\ sub_req.sub_requirements # <<>>
                    THEN _renumber_sub_requirements(sub_req)
                    ELSE sub_req]]

\* list.pop(k) for a 0-based k in range
Pop(list, k) == SubSeq(list, 1, k) \o SubSeq(list, k + 2, Len(list))

\* pop without the renumbering call
RemoveNoRenumber(parent_req, sub_index) ==
    IF ~HasSubs(parent_req) THEN [parent |-> parent_req, ret |-> FALSE]
    ELSE IF 0 <= sub_index /\ sub_index < Len(parent_req.sub_requirements)
    THEN [parent |-> [parent_req EXCEPT !.sub_requirements = Pop(@, sub_index)],
          ret |-> TRUE]
    ELSE [parent |-> parent_req, ret |-> FALSE]

\* the range test without its lower bound: list.pop with a negative index
\* counts from the end of the list
RemoveAcceptingNegative(parent_req, sub_index) ==
    LET n == IF HasSubs(parent_req) THEN Len(parent_req.sub_requirements) ELSE 0
        k == IF sub_index < 0 THEN n + sub_index ELSE sub_index
    IN  IF ~HasSubs(parent_req) THEN [parent |-> parent_req, ret |-> FALSE]
        ELSE IF sub_index < n /\ k >= 0
        THEN [parent |-> _renumber_sub_requirements(
                            [parent_req EXCEPT !.sub_requirements = Pop(@, k)]),
              ret |-> TRUE]
        ELSE [parent |-> parent_req, ret |-> FALSE]

\* pop() without its argument: the last child goes, whatever the index
RemoveLastChild(parent_req, sub_index) ==
    IF ~HasSubs(parent_req) THEN [parent |-> parent_req, ret |-> FALSE]
    ELSE IF 0 <= sub_index /\ sub_index < Len(parent_req.sub_requirements)
    THEN [parent |-> _renumber_sub_requirements(
                        [parent_req EXCEPT !.sub_requirements =
                            Pop(@, Len(parent_req.sub_requirements) - 1)]),
          ret |-> TRUE]
    ELSE [parent |-> parent_req, ret |-> FALSE]

\* the mutated parent_req and the returned bool
remove_sub_requirement(parent_req, sub_index) ==
    IF ~HasSubs(parent_req) THEN [parent |-> parent_req, ret |-> FALSE]
    ELSE IF 0 <= sub_index /\ sub_index < Len(parent_req.sub_requirements)
    THEN [parent |-> _renumber_sub_requirements(
                        [parent_req EXCEPT !.sub_requirements = Pop(@, sub_index)]),
          ret |-> TRUE]
    ELSE [parent |-> parent_req, ret |-> FALSE]

----------------------------------------------------------------------------
(* Object references: a record of the forest is addressed by its position,  *)
(* <<root position, child position, ...>>, each 1-based.                    *)

\* what find_requirement_by_id returns when no record has the id
None == [none |-> TRUE]

\* the result of the descent returned without the test `if found`: the search
\* ends in the first record that has children
RECURSIVE SearchFirstBranchOnly(_, _, _)
SearchFirstBranchOnly(req_list, req_id, i) ==
    IF i > Len(req_list) THEN None
    ELSE LET req == req_list[i]
         IN  IF req.id = req_id THEN req
             ELSE IF HasSubs(req) /\ req.sub_requirements # <<>>
             THEN SearchFirstBranchOnly(req.sub_requirements, req_id, 1)
             ELSE SearchFirstBranchOnly(req_list, req_id, i + 1)

\* the nested function of find_requirement_by_id, from position i of req_list on
RECURSIVE search_recursive(_, _, _)
search_recursive(req_list, req_id, i) ==
    IF i > Len(req_list) THEN None
    ELSE LET req == req_list[i]
             found == IF HasSubs(req) /\ req.sub_requirements # <<>>
                      THEN search_recursive(req.sub_requirements, req_id, 1)
                      ELSE None
         IN  IF req.id = req_id THEN req
             ELSE IF found # None THEN found
             ELSE search_recursive(req_list, req_id, i + 1)

find_requirement_by_id(reqs, req_id) == search_recursive(reqs, req_id, 1)

\* the descent made before the record itself is appended
RECURSIVE FlattenChildrenFirst(_, _, _)
FlattenChildrenFirst(req_list, i, flat_list) ==
    IF i > Len(req_list) THEN flat_list
    ELSE LET req == req_list[i]
             below == IF HasSubs(req) /\ req.sub_requirements # <<>>
                      THEN FlattenChildrenFirst(req.sub_requirements, 1, flat_list)
                      ELSE flat_list
         IN  FlattenChildrenFirst(req_list, i + 1, Append(below, req))

\* the nested function of get_all_requirements_flat, from position i of
\* req_list on, flat_list being what has been appended so far
RECURSIVE flatten_recursive(_, _, _)
flatten_recursive(req_list, i, flat_list) ==
    IF i > Len(req_list) THEN flat_list
    ELSE LET req == req_list[i]
             with_req == Append(flat_list, req)
             below == IF HasSubs(req) /\ req.sub_requirements # <<>>
                      THEN flatten_recursive(req.sub_requirements, 1, with_req)
                      ELSE with_req
         IN  flatten_recursive(req_list, i + 1, below)

get_all_requirements_flat(reqs) == flatten_recursive(reqs, 1, <<>>)

SubsOf(req) == IF HasSubs(req) THEN req.sub_requirements ELSE <<>>

RECURSIVE Paths(_)
Paths(list) ==
    UNION {{<<i>>} \cup {<<i>> \o p : p \in Paths(SubsOf(list[i]))} : i \in DOMAIN list}

RECURSIVE NodeAt(_, _)
NodeAt(list, path) ==
    IF Len(path) = 1 THEN list[path[1]]
    ELSE NodeAt(SubsOf(list[path[1]]), Tail(path))

\* the forest after the record at path was mutated in place into node
RECURSIVE ReplaceAt(_, _, _)
ReplaceAt(list, path, node) ==
    IF Len(path) = 1 THEN [list EXCEPT ![path[1]] = node]
    ELSE [list EXCEPT ![path[1]] =
            SetField(list[path[1]], "sub_requirements",
                     ReplaceAt(SubsOf(list[path[1]]), Tail(path), node))]

ParentPath(path) == SubSeq(path, 1, Len(path) - 1)

\* a record as a caller that predates the hierarchy builds it: the four
\* fields of the flat extractor, no 'sub_requirements' key
FlatRecord(req) == [f \in DOMAIN req \ {"sub_requirements", "parent_id"} |-> req[f]]

----------------------------------------------------------------------------
(* _create_method_name, once in TestCodeGenerator and once in TestRunner *)

\* re.sub(r'[^\w\s]', '', s)
DropNonWordNonSpace(s) == SelectSeq(s, LAMBDA c : IsWord(c) \/ IsSpace(c))

\* re.sub(r'\s+', '_', s)
SpaceRunsToUnderscore(s) ==
    LET replaced == [i \in 1..Len(s) |->
                        IF ~IsSpace(s[i]) THEN s[i]
                        ELSE IF i > 1 /\ IsSpace(s[i - 1]) THEN "" ELSE "_"]
    IN  SelectSeq(replaced, LAMBDA c : c # "")

\* s[:n]
Prefix(s, n) == SubSeq(s, 1, IF Len(s) < n THEN Len(s) ELSE n)

\* name[:50]
MethodNameLimit == 50

\* the name left at its full length: the [:50] of line 339 left out
GeneratorNameUncut(requirement_text) ==
    LET n1 == DropNonWordNonSpace(StrLower(requirement_text))
        n2 == SpaceRunsToUnderscore(n1)
        n4 == IF n2 # <<>> /\ IsDigit(n2[1]) THEN <<"r", "e", "q", "_">> \o n2 ELSE n2
    IN  IF n4 # <<>> THEN n4 ELSE <<"r", "e", "q", "u", "i", "r", "e", "m", "e", "n", "t", "_", "t", "e", "s", "t">>

\* the underscore removed with the punctuation: [^a-z0-9\s] in place of [^\w\s]
GeneratorNameWithoutUnderscore(requirement_text) ==
    LET n1 == SelectSeq(StrLower(requirement_text),
                        LAMBDA c : IsLower(c) \/ IsDigit(c) \/ IsSpace(c))
        n2 == SpaceRunsToUnderscore(n1)
        n3 == Prefix(n2, MethodNameLimit)
        n4 == IF n3 # <<>> /\ IsDigit(n3[1]) THEN <<"r", "e", "q", "_">> \o n3 ELSE n3
    IN  IF n4 # <<>> THEN n4 ELSE <<"r", "e", "q", "u", "i", "r", "e", "m", "e", "n", "t", "_", "t", "e", "s", "t">>

\* TestCodeGenerator._create_method_name
Generator_create_method_name(requirement_text) ==
    LET n1 == DropNonWordNonSpace(StrLower(requirement_text))
        n2 == SpaceRunsToUnderscore(n1)
        n3 == Prefix(n2, MethodNameLimit)
        n4 == IF n3 # <<>> /\ IsDigit(n3[1]) THEN <<"r", "e", "q", "_">> \o n3 ELSE n3
    IN  IF n4 # <<>> THEN n4 ELSE <<"r", "e", "q", "u", "i", "r", "e", "m", "e", "n", "t", "_", "t", "e", "s", "t">>

\* the prefix test made before the truncation instead of after it
RunnerNameTruncatedLast(requirement_text) ==
    LET n1 == DropNonWordNonSpace(StrLower(requirement_text))
        n2 == SpaceRunsToUnderscore(n1)
        n3 == IF n2 # <<>> /\ IsDigit(n2[1]) THEN <<"r", "e", "q", "_">> \o n2 ELSE n2
        n4 == Prefix(n3, MethodNameLimit)
    IN  IF n4 # <<>> THEN n4 ELSE <<"r", "e", "q", "u", "i", "r", "e", "m", "e", "n", "t", "_", "t", "e", "s", "t">>

\* TestRunner._create_method_name
Runner_create_method_name(requirement_text) ==
    LET name1 == DropNonWordNonSpace(StrLower(requirement_text))
        name2 == SpaceRunsToUnderscore(name1)
        name3 == Prefix(name2, MethodNameLimit)
        name4 == IF name3 # <<>> /\ IsDigit(name3[1]) THEN <<"r", "e", "q", "_">> \o name3 ELSE name3
    IN  IF name4 # <<>> THEN name4 ELSE <<"r", "e", "q", "u", "i", "r", "e", "m", "e", "n", "t", "_", "t", "e", "s", "t">>

----------------------------------------------------------------------------
(* TestRunner._parse_pytest_output *)

\* str.split(sep)
\* from position i on, one piece per call
RECURSIVE SplitOn(_, _, _, _)
SplitOn(s, sep, i, pieces) ==
    LET hits == {j \in i..(Len(s) - Len(sep) + 1) : SubSeq(s, j, j + Len(sep) - 1) = sep}
    IN  IF hits = {} THEN Append(pieces, SubSeq(s, i, Len(s)))
        ELSE LET hit == CHOOSE j \in hits : \A k \in hits : j <= k
             IN  SplitOn(s, sep, hit + Len(sep), Append(pieces, SubSeq(s, i, hit - 1)))

\* str.split()
\* from position i on, one word per call
RECURSIVE SplitWords(_, _, _)
SplitWords(s, i, words) ==
    LET starts == {j \in i..Len(s) : ~IsSpace(s[j])}
    IN  IF starts = {} THEN words
        ELSE LET lo == CHOOSE j \in starts : \A k \in starts : j <= k
                 stops == {j \in lo..Len(s) : IsSpace(s[j])}
                 hi == IF stops = {} THEN Len(s) + 1
                       ELSE CHOOSE j \in stops : \A k \in stops : j <= k
             IN  SplitWords(s, hi, Append(words, SubSeq(s, lo, hi - 1)))

RECURSIVE IntOf(_)
IntOf(digits) ==
    IF digits = <<>> THEN 0
    ELSE 10 * IntOf(SubSeq(digits, 1, Len(digits) - 1))
         + (IndexIn(DigitChars, digits[Len(digits)]) - 1)

\* float(s) for the plain decimal numerals pytest prints, as thousandths of a
\* second; ok is FALSE where float raises ValueError
ParseFloat(s) ==
    LET t == Strip(s)
        dots == {i \in DOMAIN t : t[i] = "."}
        wellFormed == /\ \A i \in DOMAIN t : IsDigit(t[i]) \/ t[i] = "."
                      /\ Cardinality(dots) <= 1
                      /\ \E i \in DOMAIN t : IsDigit(t[i])
        cut == IF dots = {} THEN Len(t) + 1 ELSE CHOOSE i \in dots : TRUE
        frac == Prefix(SubSeq(t, cut + 1, Len(t)) \o <<"0", "0", "0">>, 3)
    IN  IF wellFormed
        THEN [ok |-> TRUE, value |-> 1000 * IntOf(SubSeq(t, 1, cut - 1)) + IntOf(frac)]
        ELSE [ok |-> FALSE, value |-> 0]

TestName(requirement_text) == <<"t", "e", "s", "t", "_">> \o Runner_create_method_name(requirement_text)

\* the dict method_to_req: a later requirement with the same method name
\* replaces the earlier one
method_to_req(reqs) ==
    [name \in {TestName(reqs[i].text) : i \in DOMAIN reqs} |->
        LET last == CHOOSE i \in DOMAIN reqs :
                        /\ TestName(reqs[i].text) = name
                        /\ \A j \in DOMAIN reqs : TestName(reqs[j].text) = name => j <= i
        IN  reqs[last].id]

Outcome(status, message, duration) ==
    [status |-> status, message |-> message, duration |-> duration]

\* the chain with ERROR tested before FAILED
LineStatusErrorFirst(line) ==
    IF Contains(line, <<"P", "A", "S", "S", "E", "D">>)
        THEN [status |-> "passed", message |-> <<"Test passed successfully">>]
    ELSE IF Contains(line, <<"E", "R", "R", "O", "R">>)
        THEN [status |-> "error", message |-> <<"Test error - check syntax">>]
    ELSE IF Contains(line, <<"F", "A", "I", "L", "E", "D">>)
        THEN [status |-> "failed", message |-> <<"Test failed - check implementation">>]
    ELSE [status |-> "unknown", message |-> <<"Unknown test result">>]

\* the chain without its ERROR branch
LineStatusWithoutError(line) ==
    IF Contains(line, <<"P", "A", "S", "S", "E", "D">>)
        THEN [status |-> "passed", message |-> <<"Test passed successfully">>]
    ELSE IF Contains(line, <<"F", "A", "I", "L", "E", "D">>)
        THEN [status |-> "failed", message |-> <<"Test failed - check implementation">>]
    ELSE [status |-> "unknown", message |-> <<"Unknown test result">>]

\* status and message of a matched line
LineStatus(line) ==
    IF Contains(line, <<"P", "A", "S", "S", "E", "D">>)
        THEN [status |-> "passed", message |-> <<"Test passed successfully">>]
    ELSE IF Contains(line, <<"F", "A", "I", "L", "E", "D">>)
        THEN [status |-> "failed", message |-> <<"Test failed - check implementation">>]
    ELSE IF Contains(line, <<"E", "R", "R", "O", "R">>)
        THEN [status |-> "error", message |-> <<"Test error - check syntax">>]
    ELSE [status |-> "unknown", message |-> <<"Unknown test result">>]

\* duration of a matched line
LineDuration(line) ==
    IF Contains(line, <<"[">>) /\ Contains(line, <<"s", "]">>)
    THEN LET afterBracket == SplitOn(line, <<"[">>, 1, <<>>)[2]
             duration_str == SplitOn(afterBracket, <<"s", "]">>, 1, <<>>)[1]
             f == ParseFloat(duration_str)
         IN  IF f.ok THEN f.value ELSE 0
    ELSE 0

\* the frame before the loop; matched counts the lines that recorded an
\* outcome and matchedIds holds the ids they recorded it for
ParseIdle ==
    [results |-> <<>>, test_session_started |-> FALSE, lineNo |-> 0,
     matched |-> 0, matchedIds |-> {}, returned |-> FALSE]

\* one iteration of `for line in lines`; exc is TRUE where the body raises
\* IndexError (parts[-1].split() is empty)
ParseOneLine(frame, rawline, lookup) ==
    LET line == Strip(rawline)
        next == [frame EXCEPT !.lineNo = @ + 1]
        parts == SplitOn(line, <<":", ":">>, 1, <<>>)
        words == SplitWords(parts[Len(parts)], 1, <<>>)
    IN  IF Contains(StrLower(line), <<"t", "e", "s", "t", " ", "s", "e", "s", "s", "i", "o", "n", " ", "s", "t", "a", "r", "t", "s">>) \/ Contains(line, <<"=", "=", "=", "=", "=", "=", "=">>)
            THEN [exc |-> FALSE, frame |-> [next EXCEPT !.test_session_started = TRUE]]
        ELSE IF ~frame.test_session_started
            THEN [exc |-> FALSE, frame |-> next]
        ELSE IF /\ Contains(line, <<":", ":", "t", "e", "s", "t", "_">>)
                /\ (Contains(line, <<"P", "A", "S", "S", "E", "D">>) \/ Contains(line, <<"F", "A", "I", "L", "E", "D">>)
                    \/ Contains(line, <<"E", "R", "R", "O", "R">>))
                /\ Len(parts) >= 3
            THEN IF words = <<>>
                 THEN [exc |-> TRUE, frame |-> frame]
                 ELSE LET test_method == words[1]
                      IN  IF test_method \in DOMAIN lookup /\ lookup[test_method] # <<>>
                          THEN [exc |-> FALSE,
                                frame |-> [next EXCEPT
                                    !.results = SetField(@, lookup[test_method],
                                        Outcome(LineStatus(line).status,
                                                LineStatus(line).message,
                                                LineDuration(line))),
                                    !.matched = @ + 1,
                                    !.matchedIds = @ \cup {lookup[test_method]}]]
                          ELSE [exc |-> FALSE, frame |-> next]
        ELSE [exc |-> FALSE, frame |-> next]

Ids(reqs) == {reqs[i].id : i \in DOMAIN reqs}

\* `for req in requirements: results[req['id']] = outcome`
MarkAll(dict, reqs, outcome) ==
    [id \in DOMAIN dict \cup Ids(reqs) |-> IF id \in Ids(reqs) THEN outcome ELSE dict[id]]

\* the exit-code fallback taken for the passing exit code only
FallbackIgnoringFailure(dict, returncode, reqs) ==
    IF dict = <<>>
    THEN MarkAll(dict, reqs, Outcome("passed", <<"Test passed (inferred from exit code)">>, 0))
    ELSE dict

\* the exit-code fallback applied to each requirement that has no entry
FallbackPerRequirement(dict, returncode, reqs) ==
    [id \in DOMAIN dict \cup Ids(reqs) |->
        IF id \in DOMAIN dict THEN dict[id]
        ELSE IF returncode = 0
             THEN Outcome("passed", <<"Test passed (inferred from exit code)">>, 0)
             ELSE Outcome("failed", <<"Test failed (inferred from exit code)">>, 0)]

\* runner.py lines 154-167
ExitCodeFallback(dict, returncode, reqs) ==
    IF dict = <<>> /\ returncode = 0
        THEN MarkAll(dict, reqs, Outcome("passed", <<"Test passed (inferred from exit code)">>, 0))
    ELSE IF dict = <<>> /\ returncode # 0
        THEN MarkAll(dict, reqs, Outcome("failed", <<"Test failed (inferred from exit code)">>, 0))
    ELSE dict

\* runner.py lines 169-175
FillSkipped(dict, reqs) ==
    [id \in DOMAIN dict \cup Ids(reqs) |->
        IF id \in DOMAIN dict THEN dict[id]
        ELSE Outcome("skipped", <<"Test was not executed or could not be parsed">>, 0)]

----------------------------------------------------------------------------
(* TestRunner.run_tests *)

NoExc == [type |-> "none", text |-> ""]
NoProc == [outcome |-> "none", lines |-> <<>>, returncode |-> 0]

\* what a raising progress_callback raises
CallbackError == [type |-> "Exception", text |-> "callback failed"]
\* what subprocess.run raises when the binary cannot be started
StartError == [type |-> "Exception", text |-> "No such file or directory"]

TimedOutOutcome == Outcome("failed", <<"Test execution timed out">>, 0)
ErrorOutcome(e) == Outcome("error", <<"Execution error: ", e.text>>, 0)

----------------------------------------------------------------------------
(* Inputs of the hierarchy model *)

SampleTexts == {
    <<>>,
    <<"N", "o", "t", "h", "i", "n", "g", " ", "h", "e", "r", "e", ".">>,
    <<".", ".", "I", "t", " ", "m", "u", "s", "t", " ", "w", "o", "r", "k">>,
    <<"U", "s", "e", "r", "s", " ", "M", "U", "S", "T", " ", "l", "o", "g", " ", "i", "n", "!", " ", "W", "e", "l", "l", " ", "d", "o", "n", "e", ".", " ", "I", "t", " ", "s", "h", "a", "l", "l", " ", "b", "e", " ", "f", "a", "s", "t", "?">>,
    <<"T", "h", "e", " ", "a", "p", "p", " ", "s", "h", "o", "u", "l", "d", " ", "v", "a", "l", "i", "d", "a", "t", "e", " ", "i", "n", "p", "u", "t", ".", " ", "R", "a", "n", "d", "o", "m", " ", "f", "i", "l", "l", "e", "r", " ", "s", "e", "n", "t", "e", "n", "c", "e", ".", " ", "U", "s", "e", "r", "s", " ", "m", "u", "s", "t", " ", "a", "u", "t", "h", "e", "n", "t", "i", "c", "a", "t", "e", ".">> }

SubTexts == { <<>>, <<" ", "s", "h", "o", "w", " ", " ", "i", "t", ".", " ">> }

NoCall == [op |-> "none"]

NoQuery == [op |-> "none"]

IdleName ==
    /\ nameReq = [text |-> <<>>, category |-> "Functional"]
    /\ genName = <<>>
    /\ runName = <<>>
    /\ rawSentence = <<>>

NotGenerated == [none |-> TRUE]

NoCredentials == [none |-> TRUE]

NotCalled == [none |-> TRUE]

IdleSuite ==
    /\ suiteReqs = <<>>
    /\ code = NotGenerated
    /\ credentials = NoCredentials
    /\ authResult = NotCalled
    /\ asserted = <<>>

NoDialog == [none |-> TRUE]

\* MainFrame.__init__ and RequirementsPanel.__init__
IdleFrame ==
    /\ current_requirements = <<>>
    /\ panel_requirements = <<>>
    /\ test_code_text = FALSE
    /\ run_tests_btn = FALSE
    /\ progress_dlg = NoDialog
    /\ threads = <<>>
    /\ callAfter = <<>>
    /\ runs = <<>>

IdleRun ==
    /\ pc = "idle"
    /\ requirements = <<>>
    /\ callback = FALSE
    /\ proc = NoProc
    /\ results = <<>>
    /\ parse = ParseIdle
    /\ tempFile = "none"
    /\ pending = NoExc
    /\ caught = NoExc
    /\ progress = <<>>

InitForest ==
    /\ text \in SampleTexts
    /\ forest = extract_requirements(text)
    /\ lastReturn = NoCall
    /\ query = NoQuery
    /\ IdleRun
    /\ IdleFrame
    /\ IdleSuite
    /\ IdleName

\* parser.extract_requirements(text): the forest is replaced wholesale
Extract ==
    /\ \E t \in SampleTexts :
        /\ text' = t
        /\ forest' = extract_requirements(t)
    /\ lastReturn' = NoCall
    /\ query' = NoQuery
    /\ UNCHANGED <<runVars, nameVars, suiteVars, frameVars>>

\* parser.add_sub_requirement(record at p, t)
AddChild ==
    /\ Cardinality(Paths(forest)) < MaxNodes
    /\ \E p \in Paths(forest), t \in SubTexts :
        /\ Len(p) <= MaxDepth
        /\ LET r == add_sub_requirement(NodeAt(forest, p), t)
           IN  /\ forest' = ReplaceAt(forest, p, r.parent)
               /\ lastReturn' = [op |-> "add", path |-> p, ret |-> r.ret]
    /\ query' = NoQuery
    /\ UNCHANGED <<text, runVars, nameVars, suiteVars, frameVars>>

\* parser.remove_sub_requirement(record at p, k), k in range or not
RemoveChild ==
    /\ \E p \in Paths(forest) :
       \E k \in -1..Len(SubsOf(NodeAt(forest, p))) :
        LET r == remove_sub_requirement(NodeAt(forest, p), k)
        IN  /\ forest' = ReplaceAt(forest, p, r.parent)
            /\ lastReturn' = [op |-> "remove", path |-> p, index |-> k, ret |-> r.ret]
    /\ query' = NoQuery
    /\ UNCHANGED <<text, runVars, nameVars, suiteVars, frameVars>>

\* parser.remove_sub_requirement(flat record, k): the record was built without
\* a 'sub_requirements' key and is not part of the forest
RemoveChildOfFlatRecord ==
    /\ \E i \in DOMAIN forest, k \in -1..0 :
        LET r == remove_sub_requirement(FlatRecord(forest[i]), k)
        IN  lastReturn' = [op |-> "remove_flat", path |-> <<i>>, index |-> k,
                           ret |-> r.ret, record |-> r.parent]
    /\ query' = NoQuery
    /\ UNCHANGED <<text, forest, runVars, nameVars, suiteVars, frameVars>>

CheckedPaths == {p \in Paths(forest) : NodeAt(forest, p).checked}

\* RequirementsPanel.on_requirement_check(event, record at p), the checkbox
\* ticked (b) or cleared; the user keeps one box ticked at a time
on_requirement_check ==
    /\ \E p \in Paths(forest), b \in BOOLEAN :
        /\ b => CheckedPaths \subseteq {p}
        /\ forest' = ReplaceAt(forest, p, SetField(NodeAt(forest, p), "checked", b))
    /\ lastReturn' = NoCall
    /\ query' = NoQuery
    /\ UNCHANGED <<text, runVars, nameVars, suiteVars, frameVars>>

NextForest ==
    \/ Extract
    \/ AddChild
    \/ RemoveChild
    \/ RemoveChildOfFlatRecord
    \/ on_requirement_check

SpecForest == InitForest /\ [][NextForest]_vars

----------------------------------------------------------------------------
(* Hierarchy claims *)

\* C1: after any sequence of add_sub_requirement / remove_sub_requirement calls
\* on an extracted forest, every nested record's id is its parent's current id,
\* a '.', and its 1-based position among its siblings, and its parent_id is its
\* parent's current id, at every depth.
C1_IdsMatchPosition ==
    \A p \in Paths(forest) :
        Len(p) >= 2 =>
            LET req == NodeAt(forest, p)
                parent == NodeAt(forest, ParentPath(p))
            IN  /\ req.id = parent.id \o <<".">> \o Dec(p[Len(p)])
                /\ "parent_id" \in DOMAIN req
                /\ req.parent_id = parent.id

\* a removal succeeded and moved a record that has children of its own into
\* the removed position
C1_Witness ==
    /\ lastReturn.op = "remove"
    /\ lastReturn.ret = TRUE
    /\ (lastReturn.path \o <<lastReturn.index + 1, 1>>) \in Paths(forest)

\* C2: no two records of the forest, at any depth, have the same id, directly
\* after extraction and after any sequence of add / remove calls.
C2_IdsUnique ==
    \A p, q \in Paths(forest) :
        p # q => NodeAt(forest, p).id # NodeAt(forest, q).id

\* a removal succeeded in a forest of several roots and shifted a later
\* sibling into the removed position, so that its id was rewritten
C2_Witness ==
    /\ lastReturn.op = "remove"
    /\ lastReturn.ret = TRUE
    /\ Len(forest) >= 2
    /\ (lastReturn.path \o <<lastReturn.index + 1>>) \in Paths(forest)

----------------------------------------------------------------------------
(* Method-name derivation: the same requirement record is given to the     *)
(* generator (when the source is written) and to the runner (when the      *)
(* reverse lookup is built).                                               *)

NameAlphabet == {"A", "b", "1", " ", "\t", "_", "."}

StringsUpTo(n) == UNION {[1..k -> NameAlphabet] : k \in 0..n}

Pad(n) == [i \in 1..n |-> "x"]

\* texts shorter than, as long as and longer than the truncation limit
NameTexts ==
    {pre \o Pad(n) \o suf :
        pre \in StringsUpTo(MaxAffix),
        n \in {0} \cup ((MethodNameLimit - 2)..MethodNameLimit),
        suf \in StringsUpTo(1)}

NameCategories == {"Security", "Functional"}

InitName ==
    /\ nameReq \in [text : NameTexts, category : NameCategories]
    /\ genName = <<>>
    /\ runName = <<>>
    /\ rawSentence = <<>>
    /\ text = <<>>
    /\ forest = <<>>
    /\ lastReturn = NoCall
    /\ query = NoQuery
    /\ IdleRun
    /\ IdleFrame
    /\ IdleSuite

\* TestCodeGenerator._generate_test_method: f"    def test_{method_name}(self):"
Generate ==
    /\ genName = <<>>
    /\ genName' = <<"t", "e", "s", "t", "_">> \o Generator_create_method_name(nameReq.text)
    /\ UNCHANGED <<nameReq, runName, rawSentence, forestVars, runVars, suiteVars, frameVars>>

\* TestRunner._parse_pytest_output: f"test_{self._create_method_name(req['text'])}"
Correlate ==
    /\ runName = <<>>
    /\ runName' = <<"t", "e", "s", "t", "_">> \o Runner_create_method_name(nameReq.text)
    /\ UNCHANGED <<nameReq, genName, rawSentence, forestVars, runVars, suiteVars, frameVars>>

NextName == Generate \/ Correlate

SpecName == InitName /\ [][NextName]_vars

\* C7: for every requirement text, whatever the category, the method name the
\* runner recomputes for its reverse lookup is character for character the name
\* the generator wrote into the source.
C7_SameMethodName ==
    (genName # <<>> /\ runName # <<>>) => genName = runName

\* both names were derived from a text that starts with a digit and is longer
\* than the truncation limit
C7_Witness ==
    /\ genName # <<>>
    /\ runName # <<>>
    /\ Len(nameReq.text) > MethodNameLimit
    /\ IsDigit(nameReq.text[1])
    /\ Len(runName) = Len(<<"t", "e", "s", "t", "_", "r", "e", "q", "_">>) + MethodNameLimit

----------------------------------------------------------------------------
(* Inputs of the runner model *)

\* flattened requirement records; the third repeats the text of the first
ReqPool == <<
    [id |-> <<"R", "E", "Q", "_", "0", "0", "1">>, text |-> <<"A", " ", "m", "u", "s", "t", " ", "x", ".">>],
    [id |-> <<"R", "E", "Q", "_", "0", "0", "2">>, text |-> <<"B", " ", "s", "h", "a", "l", "l", " ", "y", ".">>],
    [id |-> <<"R", "E", "Q", "_", "0", "0", "1", ".", "1">>, text |-> <<"A", " ", "m", "u", "s", "t", " ", "x", ".">>] >>

RECURSIVE SubSeqs(_)
SubSeqs(s) ==
    IF s = <<>> THEN {<<>>}
    ELSE LET rest == SubSeqs(Tail(s))
         IN  rest \cup {<<Head(s)>> \o r : r \in rest}

ReqLists == {l \in SubSeqs(ReqPool) : Len(l) <= MaxReqs}

\* lines of (stdout + stderr).split('\n'); a line naming test_a_must_x or
\* test_b_shall_y names an unknown method when the call's requirements do not
\* derive it
SampleLines == {
    <<"=", "=", " ", "T", "e", "s", "t", " ", "S", "e", "s", "s", "i", "o", "n", " ", "S", "t", "a", "r", "t", "s", " ", "=", "=">>,
    <<"t", ".", "p", "y", ":", ":", "T", ":", ":", "t", "e", "s", "t", "_", "a", "_", "m", "u", "s", "t", "_", "x", " ", "P", "A", "S", "S", "E", "D", " ", "[", " ", "5", "0", "%", "]">>,
    <<"t", ".", "p", "y", ":", ":", "T", ":", ":", "t", "e", "s", "t", "_", "a", "_", "m", "u", "s", "t", "_", "x", " ", "F", "A", "I", "L", "E", "D", " ", "[", "0", ".", "5", "s", "]", " ", "E", "R", "R", "O", "R">>,
    <<"E", "R", "R", "O", "R", " ", "t", ".", "p", "y", ":", ":", "T", ":", ":", "t", "e", "s", "t", "_", "b", "_", "s", "h", "a", "l", "l", "_", "y", " ", "-", " ", "b", "o", "o", "m">>,
    <<"E", "R", "R", "O", "R", " ", "t", ".", "p", "y", ":", ":", "t", "e", "s", "t", "_", "b", ":", ":">> }

Outputs == UNION {[1..k -> SampleLines] : k \in 0..MaxLines}

ReturnCodes == {0, 1}

\* what subprocess.run(cmd, capture_output=True, text=True, timeout=60) does
ProcOutcomes ==
    [outcome : {"finished"}, lines : Outputs, returncode : ReturnCodes]
    \cup {[outcome |-> "timeout", lines |-> <<>>, returncode |-> 0],
          [outcome |-> "error", lines |-> <<>>, returncode |-> 0]}

InitRun ==
    /\ IdleRun
    /\ IdleFrame
    /\ IdleSuite
    /\ IdleName
    /\ text = <<>>
    /\ forest = <<>>
    /\ lastReturn = NoCall
    /\ query = NoQuery

\* lines 45-49: results = {}, the temporary file is created and written
run_tests_begin ==
    /\ pc \in {"idle", "returned", "raised"}
    /\ \E reqs \in ReqLists, cb \in BOOLEAN, persist \in {"ok", "create_fails", "write_fails"} :
        /\ requirements' = reqs
        /\ callback' = cb
        /\ tempFile' = IF persist = "create_fails" THEN "none" ELSE "exists"
        /\ pending' = IF persist = "ok" THEN NoExc
                      ELSE [type |-> "Exception", text |-> "No space left on device"]
        /\ pc' = IF persist = "ok" THEN "notify_start" ELSE "raised"
    /\ results' = <<>>
    /\ parse' = ParseIdle
    /\ proc' = NoProc
    /\ caught' = NoExc
    /\ progress' = <<>>
    /\ UNCHANGED <<forestVars, nameVars, suiteVars, frameVars>>

\* `if progress_callback: progress_callback(message)` inside the try block
Notify(message, next) ==
    IF ~callback
    THEN /\ pc' = next
         /\ UNCHANGED <<progress, pending, suiteVars, frameVars>>
    ELSE \E raises \in BOOLEAN :
         /\ progress' = Append(progress, [message |-> message, raised |-> raises])
         /\ pending' = IF raises THEN CallbackError ELSE pending
         /\ pc' = IF raises THEN "except" ELSE next

\* lines 59-60
NotifyStart ==
    /\ pc = "notify_start"
    /\ Notify("Starting test execution...", "invoke")
    /\ UNCHANGED <<requirements, callback, proc, results, parse, tempFile, caught,
                   forestVars, nameVars, suiteVars, frameVars>>

\* line 62
Invoke ==
    /\ pc = "invoke"
    /\ \E p \in ProcOutcomes :
        /\ proc' = p
        /\ pending' = IF p.outcome = "timeout"
                          THEN [type |-> "TimeoutExpired", text |-> "timed out after 60 seconds"]
                      ELSE IF p.outcome = "error" THEN StartError
                      ELSE pending
        /\ pc' = IF p.outcome = "finished" THEN "notify_parsing" ELSE "except"
    /\ UNCHANGED <<requirements, callback, results, parse, tempFile, caught, progress,
                   forestVars, nameVars, suiteVars, frameVars>>

\* lines 64-65
NotifyParsing ==
    /\ pc = "notify_parsing"
    /\ Notify("Parsing test results...", "parse")
    /\ UNCHANGED <<requirements, callback, proc, results, parse, tempFile, caught,
                   forestVars, nameVars, suiteVars, frameVars>>

\* lines 111-152, one line of the output
ParseLine ==
    /\ pc = "parse"
    /\ parse.lineNo < Len(proc.lines)
    /\ LET r == ParseOneLine(parse, proc.lines[parse.lineNo + 1],
                             method_to_req(requirements))
       IN  /\ parse' = r.frame
           /\ pending' = IF r.exc
                         THEN [type |-> "Exception", text |-> "list index out of range"]
                         ELSE pending
           /\ pc' = IF r.exc THEN "except" ELSE "parse"
    /\ UNCHANGED <<requirements, callback, proc, results, tempFile, caught, progress,
                   forestVars, nameVars, suiteVars, frameVars>>

\* lines 154-177 and the assignment of line 67
ParseFinish ==
    /\ pc = "parse"
    /\ parse.lineNo = Len(proc.lines)
    /\ LET final == FillSkipped(
                        ExitCodeFallback(parse.results, proc.returncode, requirements),
                        requirements)
       IN  /\ parse' = [parse EXCEPT !.results = final, !.returned = TRUE]
           /\ results' = final
    /\ pc' = "notify_completed"
    /\ UNCHANGED <<requirements, callback, proc, tempFile, pending, caught, progress,
                   forestVars, nameVars, suiteVars, frameVars>>

\* lines 69-70
NotifyCompleted ==
    /\ pc = "notify_completed"
    /\ Notify("Test execution completed", "finally")
    /\ UNCHANGED <<requirements, callback, proc, results, parse, tempFile, caught,
                   forestVars, nameVars, suiteVars, frameVars>>

\* the body of an except clause: the callback is called first; when it raises,
\* the new exception leaves the clause before any requirement is marked
Handler(message, outcome) ==
    /\ caught' = pending
    /\ pc' = "finally"
    /\ IF ~callback
       THEN /\ results' = MarkAll(results, requirements, outcome)
            /\ pending' = NoExc
            /\ UNCHANGED progress
       ELSE \E raises \in BOOLEAN :
            /\ progress' = Append(progress, [message |-> message, raised |-> raises])
            /\ pending' = IF raises THEN CallbackError ELSE NoExc
            /\ results' = IF raises THEN results
                          ELSE MarkAll(results, requirements, outcome)

\* lines 72-80
HandleTimeout ==
    /\ pc = "except"
    /\ pending.type = "TimeoutExpired"
    /\ Handler("Test execution timed out", TimedOutOutcome)
    /\ UNCHANGED <<requirements, callback, proc, parse, tempFile, forestVars, nameVars, suiteVars, frameVars>>

\* lines 81-89
HandleException ==
    /\ pc = "except"
    /\ pending.type = "Exception"
    /\ Handler("Test execution error", ErrorOutcome(pending))
    /\ UNCHANGED <<requirements, callback, proc, parse, tempFile, forestVars, nameVars, suiteVars, frameVars>>

\* lines 90-96: os.unlink, its failure swallowed; then return or re-raise
Finally ==
    /\ pc = "finally"
    /\ \E unlinked \in BOOLEAN :
        tempFile' = IF unlinked THEN "deleted" ELSE "unlink_failed"
    /\ pc' = IF pending = NoExc THEN "returned" ELSE "raised"
    /\ UNCHANGED <<requirements, callback, proc, results, parse, pending, caught,
                   progress, forestVars, nameVars, suiteVars, frameVars>>

NextRun ==
    \/ run_tests_begin
    \/ NotifyStart
    \/ Invoke
    \/ NotifyParsing
    \/ ParseLine
    \/ ParseFinish
    \/ NotifyCompleted
    \/ HandleTimeout
    \/ HandleException
    \/ Finally

SpecRun == InitRun /\ [][NextRun]_vars

----------------------------------------------------------------------------
(* Runner claims *)

Terminal == pc \in {"returned", "raised"}

AllMarked(dict, reqs, outcome) ==
    \A id \in Ids(reqs) : id \in DOMAIN dict /\ dict[id] = outcome

InferredPassed == Outcome("passed", <<"Test passed (inferred from exit code)">>, 0)
InferredFailed == Outcome("failed", <<"Test failed (inferred from exit code)">>, 0)
Skipped == Outcome("skipped", <<"Test was not executed or could not be parsed">>, 0)

\* C3: run_tests never lets an error escape, whatever fails (persisting the
\* temporary file, starting the binary, a timeout, any other exception, the
\* deletion of the file): it returns, and the returned map has exactly the
\* requirement ids of this call as its keys.
C3_NoErrorEscapes ==
    /\ pc # "raised"
    /\ pc = "returned" => DOMAIN results = Ids(requirements)

C6_TimeoutAndErrorMarkAll ==
    Terminal =>
        /\ proc.outcome = "timeout" =>
                /\ pc = "returned"
                /\ AllMarked(results, requirements, TimedOutOutcome)
                /\ parse = ParseIdle
        /\ (caught.type = "Exception" /\ caught # CallbackError) =>
                /\ pc = "returned"
                /\ AllMarked(results, requirements, ErrorOutcome(caught))

OutcomesKept(before, after) ==
    \A id \in DOMAIN before : id \in DOMAIN after /\ after[id] = before[id]

\* C8: within one run an outcome, once recorded for a requirement id, is never
\* overwritten or changed by a later output line or a later step of the run.
C8_OutcomeTerminal ==
    [][(pc \notin {"idle", "returned", "raised"}) =>
            /\ OutcomesKept(parse.results, parse'.results)
            /\ OutcomesKept(results, results')]_vars

\* the map a call without progress_callback returns for the behaviour the
\* process showed in this run
WithoutCallback ==
    IF proc.outcome = "timeout" THEN MarkAll(<<>>, requirements, TimedOutOutcome)
    ELSE IF proc.outcome = "error"
        THEN MarkAll(<<>>, requirements, ErrorOutcome(StartError))
    ELSE parse.results

\* C9: progress reporting is advisory: for the same requirements and the same
\* behaviour of the process the call returns the map it returns without
\* progress_callback, whatever the callback does when invoked.
C9_ProgressAdvisory ==
    (Terminal /\ (proc.outcome \in {"timeout", "error"} \/ parse.returned)) =>
        /\ pc = "returned"
        /\ results = WithoutCallback

\* C10: the temporary file is deleted on every exit path of run_tests,
\* including a failure while writing the test source: when the call ends the
\* file is gone unless the deletion itself failed.
C10_TempFileDeleted ==
    Terminal => tempFile \in {"none", "deleted", "unlink_failed"}

----------------------------------------------------------------------------
(* Hierarchy claims: the effect and the frame of one call *)

\* the record a call of the hierarchy addressed, as it was before the call
Target == NodeAt(forest, lastReturn'.path)

\* C11: remove_sub_requirement with an index below 0 or at or above the number
\* of children, or on a record without a 'sub_requirements' key, returns False
\* and changes nothing: no child is removed, no id or parent_id is rewritten.
C11_InvalidRemoveChangesNothing ==
    [][ /\ ( /\ lastReturn'.op = "remove"
             /\ \/ lastReturn'.index < 0
                \/ lastReturn'.index >= Len(SubsOf(Target)) )
            => /\ lastReturn'.ret = FALSE
               /\ forest' = forest
        /\ lastReturn'.op = "remove_flat"
            => /\ lastReturn'.ret = FALSE
               /\ lastReturn'.record = FlatRecord(Target)
               /\ forest' = forest ]_vars

\* index -1 was refused on a record that has children
C11_Witness ==
    /\ lastReturn.op = "remove"
    /\ lastReturn.index = -1
    /\ lastReturn.ret = FALSE
    /\ SubsOf(NodeAt(forest, lastReturn.path)) # <<>>

\* what a record holds apart from id and parent_id: its keys, text, category,
\* checked, and the same of its children, in their order
RECURSIVE Content(_)
Content(req) ==
    [keys |-> DOMAIN req,
     text |-> req.text,
     category |-> req.category,
     checked |-> req.checked,
     children |-> [i \in DOMAIN SubsOf(req) |-> Content(SubsOf(req)[i])]]

\* the fields of a record itself, its list of children left out
OwnFields(req) == [f \in DOMAIN req \ {"sub_requirements"} |-> req[f]]

\* C12: remove_sub_requirement with an index in range returns True, removes
\* exactly the child at that position with its whole subtree, keeps the order
\* of the surviving siblings, and changes nothing but id and parent_id of
\* records below the parent: text, category, checked and children order of the
\* survivors, the parent's own fields and every record outside the parent's
\* subtree are as before.
C12_ValidRemoveFrame ==
    [][ ( /\ lastReturn'.op = "remove"
          /\ 0 <= lastReturn'.index
          /\ lastReturn'.index < Len(SubsOf(Target)) )
        => LET k == lastReturn'.index + 1
               parent == NodeAt(forest', lastReturn'.path)
               before == Content(Target).children
               after == Content(parent).children
           IN  /\ lastReturn'.ret = TRUE
               /\ Len(after) = Len(before) - 1
               /\ \A i \in DOMAIN after :
                    after[i] = before[IF i < k THEN i ELSE i + 1]
               /\ OwnFields(parent) = OwnFields(Target)
               /\ forest' = ReplaceAt(forest, lastReturn'.path, parent) ]_vars

\* a child was removed in a forest of several roots, and the sibling that
\* moved into its position is ticked
C12_Witness ==
    /\ lastReturn.op = "remove"
    /\ lastReturn.ret = TRUE
    /\ Len(forest) >= 2
    /\ (lastReturn.path \o <<lastReturn.index + 1>>) \in Paths(forest)
    /\ NodeAt(forest, lastReturn.path \o <<lastReturn.index + 1>>).checked

\* C13: add_sub_requirement appends, as the last child of the parent, a new
\* record whose id is the parent's id, a '.', and the number of children the
\* parent had plus one, whose parent_id is the parent's id, unticked and
\* without children; it returns that record and leaves every record that
\* existed unchanged. A first child of REQ_001 gets the id REQ_001.1.
C13_AddAppendsLastChild ==
    [][ lastReturn'.op = "add"
        => LET parent == NodeAt(forest', lastReturn'.path)
               new == lastReturn'.ret
               n == Len(SubsOf(Target))
           IN  /\ SubsOf(parent) = Append(SubsOf(Target), new)
               /\ new.id = Target.id \o <<".">> \o Dec(n + 1)
               /\ new.parent_id = Target.id
               /\ new.checked = FALSE
               /\ new.sub_requirements = <<>>
               /\ OwnFields(parent) = OwnFields(Target)
               /\ forest' = ReplaceAt(forest, lastReturn'.path, parent)
               /\ (Target.id = <<"R", "E", "Q", "_", "0", "0", "1">> /\ n = 0) => new.id = <<"R", "E", "Q", "_", "0", "0", "1", ".", "1">> ]_vars

\* REQ_001, one of several roots, has just received its first child
C13_Witness ==
    /\ lastReturn.op = "add"
    /\ lastReturn.ret.id = <<"R", "E", "Q", "_", "0", "0", "1", ".", "1">>
    /\ Len(forest) >= 2
    /\ forest[1].id = <<"R", "E", "Q", "_", "0", "0", "1">>
    /\ forest[1].sub_requirements = <<lastReturn.ret>>

----------------------------------------------------------------------------
(* Extraction claims: the roots of the forest against the text they came from *)

\* the fragments re.split gives for the text last extracted
Fragments == SplitSentences(text, 1, <<>>, <<>>)

Blank(fragment) == \A j \in DOMAIN fragment : IsSpace(fragment[j])

\* the fragment holds one of the keywords, letter case ignored
Matches(fragment) ==
    LET lowered == StrLower(fragment)
    IN  \E k \in DOMAIN requirement_keywords :
            Contains(lowered, requirement_keywords[k])

\* the positions, 1-based, of the fragments that are to be kept
Kept(fragments) ==
    {i \in DOMAIN fragments : ~Blank(fragments[i]) /\ Matches(fragments[i])}

\* C14: extract_requirements emits a record for a fragment of the sentence
\* split if and only if the fragment is not blank and contains, letter case
\* ignored, one of the 17 keywords; a text with no such fragment gives the
\* empty list.
C14_RecordIffKeyword ==
    LET fragments == Fragments
        kept == Kept(fragments)
    IN  /\ Len(requirement_keywords) = 17
        /\ \A i \in DOMAIN fragments :
            (\E j \in DOMAIN forest : forest[j].id = RootId(i)) <=> i \in kept
        /\ Len(forest) = Cardinality(kept)
        /\ kept = {} => forest = <<>>

\* the text holds a fragment whose keyword is in capitals, a fragment without
\* a keyword and a blank fragment; two records came out of it
C14_Witness ==
    /\ text = <<"U", "s", "e", "r", "s", " ", "M", "U", "S", "T", " ", "l", "o", "g", " ", "i", "n", "!", " ", "W", "e", "l", "l", " ", "d", "o", "n", "e", ".", " ", "I", "t", " ", "s", "h", "a", "l", "l", " ", "b", "e", " ", "f", "a", "s", "t", "?">>
    /\ lastReturn = NoCall
    /\ Len(Fragments) = 4
    /\ Len(forest) = 2
    /\ forest[1].text = <<"U", "s", "e", "r", "s", " ", "M", "U", "S", "T", " ", "l", "o", "g", " ", "i", "n", ".">>
    /\ forest[2].text = <<"I", "t", " ", "s", "h", "a", "l", "l", " ", "b", "e", " ", "f", "a", "s", "t", ".">>

\* 'REQ_' and the index written with at least three digits
IdOfIndex(i) ==
    <<"R", "E", "Q", "_">> \o (IF i < 10 THEN <<"0", "0">> ELSE IF i < 100 THEN <<"0">> ELSE <<>>) \o Dec(i)

ExampleText ==
    <<"T", "h", "e", " ", "a", "p", "p", " ", "s", "h", "o", "u", "l", "d", " ", "v", "a", "l", "i", "d", "a", "t", "e", " ", "i", "n", "p", "u", "t", ".", " ", "R", "a", "n", "d", "o", "m", " ", "f", "i", "l", "l", "e", "r", " ", "s", "e", "n", "t", "e", "n", "c", "e", ".", " ", "U", "s", "e", "r", "s", " ", "m", "u", "s", "t", " ", "a", "u", "t", "h", "e", "n", "t", "i", "c", "a", "t", "e", ".">>

\* C15: the id of an extracted record is 'REQ_' and the zero-padded three-digit
\* 1-based index of its fragment in the full split sequence (discarded and
\* blank fragments are counted), the records are in fragment order, and the
\* example text gives exactly REQ_001 of category Validation and REQ_003 of
\* category Security.
C15_IdsFromSplitIndex ==
    LET fragments == Fragments
        IsOf(j, i) ==
            /\ forest[j].id = IdOfIndex(i)
            /\ forest[j].text = _clean_requirement(Strip(fragments[i]))
    IN  /\ \A j \in DOMAIN forest : \E i \in DOMAIN fragments : IsOf(j, i)
        /\ \A j1, j2 \in DOMAIN forest : \A i1, i2 \in DOMAIN fragments :
            (j1 < j2 /\ IsOf(j1, i1) /\ IsOf(j2, i2)) => i1 < i2
        /\ text = ExampleText
            => /\ Len(forest) = 2
               /\ forest[1].id = <<"R", "E", "Q", "_", "0", "0", "1">> /\ forest[1].category = "Validation"
               /\ forest[2].id = <<"R", "E", "Q", "_", "0", "0", "3">> /\ forest[2].category = "Security"

\* the example text has just been extracted: the discarded second fragment
\* left a gap in the numbering
C15_Witness ==
    /\ text = ExampleText
    /\ lastReturn = NoCall
    /\ Len(forest) = 2
    /\ forest[2].id = <<"R", "E", "Q", "_", "0", "0", "3">>
    /\ forest[2].sub_requirements = <<>>

----------------------------------------------------------------------------
(* Categorisation: sentences made of the words the rules look for *)

\* words a sentence of the model is made of
MaxWords == 2

CategoryWords == {
    <<"v", "a", "l", "i", "d", "a", "t", "e">>, <<"c", "h", "e", "c", "k">>, <<"v", "e", "r", "i", "f", "y">>, <<"e", "n", "s", "u", "r", "e">>,
    <<"i", "n", "p", "u", "t">>, <<"e", "n", "t", "e", "r">>, <<"p", "r", "o", "v", "i", "d", "e">>,
    <<"o", "u", "t", "p", "u", "t">>, <<"d", "i", "s", "p", "l", "a", "y">>, <<"s", "h", "o", "w">>, <<"r", "e", "t", "u", "r", "n">>,
    <<"s", "e", "c", "u", "r", "i", "t", "y">>, <<"a", "u", "t", "h", "e", "n", "t", "i", "c", "a", "t", "e">>, <<"a", "u", "t", "h", "o", "r", "i", "z", "e">>,
    <<"p", "e", "r", "f", "o", "r", "m", "a", "n", "c", "e">>, <<"s", "p", "e", "e", "d">>, <<"f", "a", "s", "t">>, <<"t", "i", "m", "e">>,
    <<"i", "t">>, <<"V", "E", "R", "I", "F", "Y">>, <<LongS>> \o <<"p", "e", "e", "d">> }

RECURSIVE Sentences(_)
Sentences(n) ==
    IF n = 0 THEN {<<>>}
    ELSE LET shorter == Sentences(n - 1)
         IN  shorter \cup CategoryWords
                \cup {s \o <<" ">> \o w : s \in shorter \ {<<>>}, w \in CategoryWords}

InitCategory ==
    /\ text = <<"I", "t", " ", "m", "u", "s", "t", " ", "w", "o", "r", "k", ".">>
    /\ forest = extract_requirements(text)
    /\ lastReturn = NoCall
    /\ query = NoQuery
    /\ IdleRun
    /\ IdleFrame
    /\ IdleSuite
    /\ nameReq = [text |-> <<>>, category |-> "Functional"]
    /\ genName = <<>>
    /\ runName = <<>>
    /\ rawSentence \in Sentences(MaxWords)

\* the record extract_requirements builds for a sentence that passed its tests:
\* the cleaned sentence and the category of the cleaned sentence
Categorize ==
    /\ LET clean_sentence == _clean_requirement(rawSentence)
       IN  nameReq' = [text |-> clean_sentence,
                       category |-> _categorize_requirement(clean_sentence)]
    /\ UNCHANGED <<forestVars, runVars, genName, runName, rawSentence, suiteVars, frameVars>>

\* parser.add_sub_requirement(forest[1], rawSentence): the record it appends
\* and returns
CategorizeChild ==
    /\ lastReturn = NoCall
    /\ LET r == add_sub_requirement(forest[1], rawSentence)
       IN  /\ forest' = <<r.parent>>
           /\ lastReturn' = [op |-> "add", path |-> <<1>>, ret |-> r.ret]
    /\ query' = NoQuery
    /\ UNCHANGED <<text, runVars, nameVars, suiteVars, frameVars>>

NextCategory == Categorize \/ CategorizeChild

SpecCategory == InitCategory /\ [][NextCategory]_vars

\* the rules in the order the spec gives them
CategoryRules == <<
    [category |-> "Validation",
     words |-> {<<"v", "a", "l", "i", "d", "a", "t", "e">>, <<"c", "h", "e", "c", "k">>, <<"v", "e", "r", "i", "f", "y">>, <<"e", "n", "s", "u", "r", "e">>}],
    [category |-> "Input",
     words |-> {<<"i", "n", "p", "u", "t">>, <<"e", "n", "t", "e", "r">>, <<"p", "r", "o", "v", "i", "d", "e">>}],
    [category |-> "Output",
     words |-> {<<"o", "u", "t", "p", "u", "t">>, <<"d", "i", "s", "p", "l", "a", "y">>, <<"s", "h", "o", "w">>, <<"r", "e", "t", "u", "r", "n">>}],
    [category |-> "Security",
     words |-> {<<"s", "e", "c", "u", "r", "i", "t", "y">>, <<"a", "u", "t", "h", "e", "n", "t", "i", "c", "a", "t", "e">>, <<"a", "u", "t", "h", "o", "r", "i", "z", "e">>}],
    [category |-> "Performance",
     words |-> {<<"p", "e", "r", "f", "o", "r", "m", "a", "n", "c", "e">>, <<"s", "p", "e", "e", "d">>, <<"f", "a", "s", "t">>, <<"t", "i", "m", "e">>}] >>

\* C16: the category of a record is one of Validation, Input, Output, Security,
\* Performance, Functional, and it is the category of the first rule, in that
\* order, one of whose words the sentence contains (Functional when none does);
\* a sentence with both 'validate' and 'authenticate' is Validation.
C16_CategoryByFirstRule ==
    LET lowered == StrLower(nameReq.text)
        hit == {r \in DOMAIN CategoryRules :
                    \E w \in CategoryRules[r].words : Contains(lowered, w)}
        first == CHOOSE r \in hit : \A q \in hit : r <= q
    IN  /\ nameReq.category \in {"Validation", "Input", "Output", "Security",
                                 "Performance", "Functional"}
        /\ nameReq.category =
            IF hit = {} THEN "Functional" ELSE CategoryRules[first].category
        /\ (Contains(lowered, <<"v", "a", "l", "i", "d", "a", "t", "e">>) /\ Contains(lowered, <<"a", "u", "t", "h", "e", "n", "t", "i", "c", "a", "t", "e">>))
            => nameReq.category = "Validation"

\* a sentence that names the Security word first and the Validation word second
C16_Witness ==
    /\ rawSentence = <<"a", "u", "t", "h", "e", "n", "t", "i", "c", "a", "t", "e", " ", "v", "a", "l", "i", "d", "a", "t", "e">>
    /\ nameReq.text = <<"A", "u", "t", "h", "e", "n", "t", "i", "c", "a", "t", "e", " ", "v", "a", "l", "i", "d", "a", "t", "e", ".">>
    /\ nameReq.category = "Validation"

----------------------------------------------------------------------------
(* Text normalisation *)

\* whitespace-collapsed, first character upper-cased, terminated with a period
Normalized(t) ==
    /\ t # <<>>
    /\ \A i \in DOMAIN t : IsSpace(t[i]) => t[i] = " "
    /\ t[1] # " " /\ t[Len(t)] # " "
    /\ \A i \in 1..(Len(t) - 1) : ~(t[i] = " " /\ t[i + 1] = " ")
    /\ t[1] = UpperChar(t[1])
    /\ t[Len(t)] = "."

\* C17: every record of a forest, made by extract_requirements or by
\* add_sub_requirement with any text argument, has a normalized text: no
\* leading or trailing whitespace, no run of more than one space, the first
\* character upper-cased, a period at the end.
C17_TextNormalized ==
    \A p \in Paths(forest) : Normalized(NodeAt(forest, p).text)

----------------------------------------------------------------------------
(* Queries on the forest *)

\* the id the record had that the last call removed, if it removed one
RemovedIds ==
    IF lastReturn.op = "remove" /\ lastReturn.ret
    THEN {NodeAt(forest, lastReturn.path).id \o <<".">> \o Dec(lastReturn.index + 1)}
    ELSE {}

\* ids a caller asks find_requirement_by_id for: those of the forest, that of
\* a record just removed, and one no record ever has
FindIds ==
    {NodeAt(forest, p).id : p \in Paths(forest)} \cup RemovedIds \cup {<<"R", "E", "Q", "_", "0", "0", "4">>}

\* parser.get_all_requirements_flat(forest)
Flatten ==
    /\ query' = [op |-> "flatten", ret |-> get_all_requirements_flat(forest)]
    /\ UNCHANGED <<text, forest, lastReturn, runVars, nameVars, suiteVars, frameVars>>

\* parser.find_requirement_by_id(forest, id)
Find ==
    /\ \E id \in FindIds :
        query' = [op |-> "find", id |-> id, ret |-> find_requirement_by_id(forest, id)]
    /\ UNCHANGED <<text, forest, lastReturn, runVars, nameVars, suiteVars, frameVars>>

NextQuery ==
    \/ Extract
    \/ AddChild
    \/ RemoveChild
    \/ Flatten
    \/ Find

SpecQuery == InitForest /\ [][NextQuery]_vars

\* p comes before q in depth-first pre-order: p is an ancestor of q, or p
\* branches off to an earlier sibling where the two paths part
Before(p, q) ==
    \/ Len(p) < Len(q) /\ SubSeq(q, 1, Len(p)) = p
    \/ \E k \in 1..Len(p) :
        /\ k <= Len(q)
        /\ SubSeq(p, 1, k - 1) = SubSeq(q, 1, k - 1)
        /\ p[k] < q[k]

\* C18: get_all_requirements_flat returns every record of the forest exactly
\* once, in depth-first pre-order: a record, then all of its descendants with
\* the children in list order, then its next sibling, the roots in forest
\* order. The forest [A[B,C]], [D] gives A, B, C, D.
C18_FlattenPreOrder ==
    query.op = "flatten" =>
        LET flat == query.ret
            At(p) == {k \in DOMAIN flat : flat[k] = NodeAt(forest, p)}
        IN  /\ Len(flat) = Cardinality(Paths(forest))
            /\ \A p \in Paths(forest) : Cardinality(At(p)) = 1
            /\ \A p, q \in Paths(forest) :
                Before(p, q) => \A k \in At(p), m \in At(q) : k < m

\* the forest [A[B,C]], [D] has been flattened into A, B, C, D
C18_Witness ==
    /\ query.op = "flatten"
    /\ Paths(forest) = {<<1>>, <<1, 1>>, <<1, 2>>, <<2>>}
    /\ query.ret = <<forest[1], forest[1].sub_requirements[1],
                     forest[1].sub_requirements[2], forest[2]>>

\* C19: find_requirement_by_id returns the record whose id is the argument
\* when the forest holds one, at any depth, and None otherwise; the id of a
\* removed record is found again only when renumbering gave it to a surviving
\* sibling, so that after one child was added to REQ_001 and removed, REQ_001
\* has no child and 'REQ_001.1' is not found.
C19_FindById ==
    query.op = "find" =>
        LET holders == {p \in Paths(forest) : NodeAt(forest, p).id = query.id}
        IN  /\ holders # {} => \E p \in holders : query.ret = NodeAt(forest, p)
            /\ holders = {} => query.ret = None
            /\ query.id \in RemovedIds =>
                LET parent == NodeAt(forest, lastReturn.path)
                IN  IF lastReturn.index < Len(SubsOf(parent))
                    THEN query.ret = SubsOf(parent)[lastReturn.index + 1]
                    ELSE query.ret = None
            /\ ( /\ query.id = <<"R", "E", "Q", "_", "0", "0", "1", ".", "1">>
                 /\ query.id \in RemovedIds
                 /\ SubsOf(NodeAt(forest, lastReturn.path)) = <<>> )
                => query.ret = None

\* the only child of REQ_001 has been removed and its id has been looked for
C19_Witness ==
    /\ lastReturn.op = "remove"
    /\ lastReturn.ret = TRUE
    /\ lastReturn.path = <<1>>
    /\ forest[1].id = <<"R", "E", "Q", "_", "0", "0", "1">>
    /\ forest[1].sub_requirements = <<>>
    /\ query.op = "find"
    /\ query.id = <<"R", "E", "Q", "_", "0", "0", "1", ".", "1">>
    /\ query.ret = None

----------------------------------------------------------------------------
(* The derivation of the method name, step by step *)

IsAlnum(c) == IsUpper(c) \/ IsLower(c) \/ IsDigit(c) \/ c = LongS

\* the steps in the order the spec gives them, Keeps telling which characters
\* the first step leaves in
DerivedName(t, Keeps(_)) ==
    LET stripped == SelectSeq(t, Keeps)
        lowered == [i \in DOMAIN stripped |-> LowerChar(stripped[i])]
        marked == [i \in DOMAIN lowered |->
                    IF ~IsSpace(lowered[i]) THEN lowered[i]
                    ELSE IF i > 1 /\ IsSpace(lowered[i - 1]) THEN "" ELSE "_"]
        collapsed == SelectSeq(marked, LAMBDA c : c # "")
        cut == [i \in 1..(IF Len(collapsed) > 50 THEN 50 ELSE Len(collapsed)) |->
                    collapsed[i]]
    IN  IF cut = <<>> THEN <<"r", "e", "q", "u", "i", "r", "e", "m", "e", "n", "t", "_", "t", "e", "s", "t">>
        ELSE IF IsDigit(cut[1]) THEN <<"r", "e", "q", "_">> \o cut
        ELSE cut

----------------------------------------------------------------------------
(* TestCodeGenerator: the source of the suite.  The returned string is the *)
(* lines below joined by line breaks; the model keeps the list of lines.   *)

\* code_lines before the loop (lines 170-187), class_name at its default
SuiteHeader == <<
    <<"i", "m", "p", "o", "r", "t", " ", "p", "y", "t", "e", "s", "t">>,
    <<"i", "m", "p", "o", "r", "t", " ", "u", "n", "i", "t", "t", "e", "s", "t">>,
    <<"f", "r", "o", "m", " ", "u", "n", "i", "t", "t", "e", "s", "t", ".", "m", "o", "c", "k", " ", "i", "m", "p", "o", "r", "t", " ", "M", "o", "c", "k", ",", " ", "p", "a", "t", "c", "h">>,
    <<"i", "m", "p", "o", "r", "t", " ", "s", "y", "s">>,
    <<"i", "m", "p", "o", "r", "t", " ", "o", "s">>,
    <<>>,
    <<"c", "l", "a", "s", "s", " ", "T", "e", "s", "t", "R", "e", "q", "u", "i", "r", "e", "m", "e", "n", "t", "s", ":">>,
    <<" ", " ", " ", " ", "\"", "\"", "\"", "T", "e", "s", "t", " ", "c", "l", "a", "s", "s", " ", "f", "o", "r", " ", "r", "e", "q", "u", "i", "r", "e", "m", "e", "n", "t", "s", " ", "v", "a", "l", "i", "d", "a", "t", "i", "o", "n", "\"", "\"", "\"">>,
    <<>>,
    <<" ", " ", " ", " ", "d", "e", "f", " ", "s", "e", "t", "u", "p", "_", "m", "e", "t", "h", "o", "d", "(", "s", "e", "l", "f", ")", ":">>,
    <<" ", " ", " ", " ", " ", " ", " ", " ", "\"", "\"", "\"", "S", "e", "t", "u", "p", " ", "m", "e", "t", "h", "o", "d", " ", "c", "a", "l", "l", "e", "d", " ", "b", "e", "f", "o", "r", "e", " ", "e", "a", "c", "h", " ", "t", "e", "s", "t", "\"", "\"", "\"">>,
    <<" ", " ", " ", " ", " ", " ", " ", " ", "#", " ", "I", "n", "i", "t", "i", "a", "l", "i", "z", "e", " ", "t", "e", "s", "t", " ", "d", "a", "t", "a", " ", "a", "n", "d", " ", "m", "o", "c", "k", " ", "o", "b", "j", "e", "c", "t", "s">>,
    <<" ", " ", " ", " ", " ", " ", " ", " ", "s", "e", "l", "f", ".", "m", "o", "c", "k", "_", "s", "y", "s", "t", "e", "m", " ", "=", " ", "M", "o", "c", "k", "(", ")">>,
    <<" ", " ", " ", " ", " ", " ", " ", " ", "s", "e", "l", "f", ".", "t", "e", "s", "t", "_", "d", "a", "t", "a", " ", "=", " ", "{", "'", "u", "s", "e", "r", "s", "'", ":", " ", "[", "]", ",", " ", "'", "d", "a", "t", "a", "'", ":", " ", "[", "]", "}">>,
    <<" ", " ", " ", " ", " ", " ", " ", " ", "p", "a", "s", "s">>,
    <<>> >>

\* the lines added after the loop (lines 193-238)
SuiteHelpers == <<
    <<" ", " ", " ", " ", "d", "e", "f", " ", "t", "e", "a", "r", "d", "o", "w", "n", "_", "m", "e", "t", "h", "o", "d", "(", "s", "e", "l", "f", ")", ":">>,
    <<" ", " ", " ", " ", " ", " ", " ", " ", "\"", "\"", "\"", "T", "e", "a", "r", "d", "o", "w", "n", " ", "m", "e", "t", "h", "o", "d", " ", "c", "a", "l", "l", "e", "d", " ", "a", "f", "t", "e", "r", " ", "e", "a", "c", "h", " ", "t", "e", "s", "t", "\"", "\"", "\"">>,
    <<" ", " ", " ", " ", " ", " ", " ", " ", "#", " ", "C", "l", "e", "a", "n", " ", "u", "p", " ", "a", "f", "t", "e", "r", " ", "e", "a", "c", "h", " ", "t", "e", "s", "t">>,
    <<" ", " ", " ", " ", " ", " ", " ", " ", "p", "a", "s", "s">>,
    <<>>,
    <<" ", " ", " ", " ", "d", "e", "f", " ", "_", "v", "a", "l", "i", "d", "a", "t", "e", "_", "i", "n", "p", "u", "t", "(", "s", "e", "l", "f", ",", " ", "i", "n", "p", "u", "t", "_", "d", "a", "t", "a", ")", ":">>,
    <<" ", " ", " ", " ", " ", " ", " ", " ", "\"", "\"", "\"", "H", "e", "l", "p", "e", "r", " ", "m", "e", "t", "h", "o", "d", " ", "f", "o", "r", " ", "i", "n", "p", "u", "t", " ", "v", "a", "l", "i", "d", "a", "t", "i", "o", "n", " ", "t", "e", "s", "t", "s", "\"", "\"", "\"">>,
    <<" ", " ", " ", " ", " ", " ", " ", " ", "i", "f", " ", "n", "o", "t", " ", "i", "n", "p", "u", "t", "_", "d", "a", "t", "a", " ", "o", "r", " ", "n", "o", "t", " ", "i", "s", "i", "n", "s", "t", "a", "n", "c", "e", "(", "i", "n", "p", "u", "t", "_", "d", "a", "t", "a", ",", " ", "(", "s", "t", "r", ",", " ", "d", "i", "c", "t", ",", " ", "l", "i", "s", "t", ")", ")", ":">>,
    <<" ", " ", " ", " ", " ", " ", " ", " ", " ", " ", " ", " ", "r", "e", "t", "u", "r", "n", " ", "F", "a", "l", "s", "e">>,
    <<" ", " ", " ", " ", " ", " ", " ", " ", "r", "e", "t", "u", "r", "n", " ", "T", "r", "u", "e">>,
    <<>>,
    <<" ", " ", " ", " ", "d", "e", "f", " ", "_", "a", "u", "t", "h", "e", "n", "t", "i", "c", "a", "t", "e", "_", "u", "s", "e", "r", "(", "s", "e", "l", "f", ",", " ", "u", "s", "e", "r", "n", "a", "m", "e", ",", " ", "p", "a", "s", "s", "w", "o", "r", "d", ")", ":">>,
    <<" ", " ", " ", " ", " ", " ", " ", " ", "\"", "\"", "\"", "H", "e", "l", "p", "e", "r", " ", "m", "e", "t", "h", "o", "d", " ", "f", "o", "r", " ", "a", "u", "t", "h", "e", "n", "t", "i", "c", "a", "t", "i", "o", "n", " ", "t", "e", "s", "t", "s", "\"", "\"", "\"">>,
    <<" ", " ", " ", " ", " ", " ", " ", " ", "#", " ", "M", "o", "c", "k", " ", "a", "u", "t", "h", "e", "n", "t", "i", "c", "a", "t", "i", "o", "n", " ", "l", "o", "g", "i", "c">>,
    <<" ", " ", " ", " ", " ", " ", " ", " ", "i", "f", " ", "u", "s", "e", "r", "n", "a", "m", "e", " ", "a", "n", "d", " ", "p", "a", "s", "s", "w", "o", "r", "d", " ", "a", "n", "d", " ", "l", "e", "n", "(", "p", "a", "s", "s", "w", "o", "r", "d", ")", " ", ">", "=", " ", "8", ":">>,
    <<" ", " ", " ", " ", " ", " ", " ", " ", " ", " ", " ", " ", "r", "e", "t", "u", "r", "n", " ", "T", "r", "u", "e">>,
    <<" ", " ", " ", " ", " ", " ", " ", " ", "r", "e", "t", "u", "r", "n", " ", "F", "a", "l", "s", "e">>,
    <<>>,
    <<" ", " ", " ", " ", "d", "e", "f", " ", "_", "s", "a", "v", "e", "_", "d", "a", "t", "a", "(", "s", "e", "l", "f", ",", " ", "d", "a", "t", "a", ")", ":">>,
    <<" ", " ", " ", " ", " ", " ", " ", " ", "\"", "\"", "\"", "H", "e", "l", "p", "e", "r", " ", "m", "e", "t", "h", "o", "d", " ", "f", "o", "r", " ", "s", "a", "v", "e", " ", "f", "u", "n", "c", "t", "i", "o", "n", "a", "l", "i", "t", "y", " ", "t", "e", "s", "t", "s", "\"", "\"", "\"">>,
    <<" ", " ", " ", " ", " ", " ", " ", " ", "#", " ", "M", "o", "c", "k", " ", "s", "a", "v", "e", " ", "o", "p", "e", "r", "a", "t", "i", "o", "n">>,
    <<" ", " ", " ", " ", " ", " ", " ", " ", "i", "f", " ", "d", "a", "t", "a", ":">>,
    <<" ", " ", " ", " ", " ", " ", " ", " ", " ", " ", " ", " ", "s", "e", "l", "f", ".", "t", "e", "s", "t", "_", "d", "a", "t", "a", "[", "'", "d", "a", "t", "a", "'", "]", ".", "a", "p", "p", "e", "n", "d", "(", "d", "a", "t", "a", ")">>,
    <<" ", " ", " ", " ", " ", " ", " ", " ", " ", " ", " ", " ", "r", "e", "t", "u", "r", "n", " ", "T", "r", "u", "e">>,
    <<" ", " ", " ", " ", " ", " ", " ", " ", "r", "e", "t", "u", "r", "n", " ", "F", "a", "l", "s", "e">>,
    <<>>,
    <<" ", " ", " ", " ", "d", "e", "f", " ", "_", "d", "i", "s", "p", "l", "a", "y", "_", "m", "e", "s", "s", "a", "g", "e", "(", "s", "e", "l", "f", ",", " ", "m", "e", "s", "s", "a", "g", "e", ")", ":">>,
    <<" ", " ", " ", " ", " ", " ", " ", " ", "\"", "\"", "\"", "H", "e", "l", "p", "e", "r", " ", "m", "e", "t", "h", "o", "d", " ", "f", "o", "r", " ", "d", "i", "s", "p", "l", "a", "y", " ", "t", "e", "s", "t", "s", "\"", "\"", "\"">>,
    <<" ", " ", " ", " ", " ", " ", " ", " ", "#", " ", "M", "o", "c", "k", " ", "d", "i", "s", "p", "l", "a", "y", " ", "o", "p", "e", "r", "a", "t", "i", "o", "n">>,
    <<" ", " ", " ", " ", " ", " ", " ", " ", "i", "f", " ", "m", "e", "s", "s", "a", "g", "e", " ", "a", "n", "d", " ", "i", "s", "i", "n", "s", "t", "a", "n", "c", "e", "(", "m", "e", "s", "s", "a", "g", "e", ",", " ", "s", "t", "r", ")", " ", "a", "n", "d", " ", "l", "e", "n", "(", "m", "e", "s", "s", "a", "g", "e", ")", " ", ">", " ", "0", ":">>,
    <<" ", " ", " ", " ", " ", " ", " ", " ", " ", " ", " ", " ", "r", "e", "t", "u", "r", "n", " ", "m", "e", "s", "s", "a", "g", "e">>,
    <<" ", " ", " ", " ", " ", " ", " ", " ", "r", "e", "t", "u", "r", "n", " ", "N", "o", "n", "e">>,
    <<>>,
    <<" ", " ", " ", " ", "d", "e", "f", " ", "_", "c", "h", "e", "c", "k", "_", "p", "e", "r", "f", "o", "r", "m", "a", "n", "c", "e", "(", "s", "e", "l", "f", ",", " ", "o", "p", "e", "r", "a", "t", "i", "o", "n", "_", "t", "i", "m", "e", ")", ":">>,
    <<" ", " ", " ", " ", " ", " ", " ", " ", "\"", "\"", "\"", "H", "e", "l", "p", "e", "r", " ", "m", "e", "t", "h", "o", "d", " ", "f", "o", "r", " ", "p", "e", "r", "f", "o", "r", "m", "a", "n", "c", "e", " ", "t", "e", "s", "t", "s", "\"", "\"", "\"">>,
    <<" ", " ", " ", " ", " ", " ", " ", " ", "#", " ", "M", "o", "c", "k", " ", "p", "e", "r", "f", "o", "r", "m", "a", "n", "c", "e", " ", "c", "h", "e", "c", "k", " ", "(", "o", "p", "e", "r", "a", "t", "i", "o", "n", " ", "s", "h", "o", "u", "l", "d", " ", "c", "o", "m", "p", "l", "e", "t", "e", " ", "i", "n", " ", "<", " ", "1", " ", "s", "e", "c", "o", "n", "d", ")">>,
    <<" ", " ", " ", " ", " ", " ", " ", " ", "r", "e", "t", "u", "r", "n", " ", "o", "p", "e", "r", "a", "t", "i", "o", "n", "_", "t", "i", "m", "e", " ", "<", " ", "1", ".", "0">>,
    <<>>,
    <<"i", "f", " ", "_", "_", "n", "a", "m", "e", "_", "_", " ", "=", "=", " ", "'", "_", "_", "m", "a", "i", "n", "_", "_", "'", ":">>,
    <<" ", " ", " ", " ", "p", "y", "t", "e", "s", "t", ".", "m", "a", "i", "n", "(", "[", "_", "_", "f", "i", "l", "e", "_", "_", "]", ")">> >>

\* the body the if / elif / else chain of _generate_test_method adds for a
\* lower-cased category
Scaffold(category) ==
    CASE category = <<"v", "a", "l", "i", "d", "a", "t", "i", "o", "n">> -> <<
            <<" ", " ", " ", " ", " ", " ", " ", " ", "#", " ", "T", "e", "s", "t", " ", "i", "n", "p", "u", "t", " ", "v", "a", "l", "i", "d", "a", "t", "i", "o", "n">>,
            <<" ", " ", " ", " ", " ", " ", " ", " ", "v", "a", "l", "i", "d", "_", "i", "n", "p", "u", "t", " ", "=", " ", "'", "v", "a", "l", "i", "d", " ", "t", "e", "s", "t", " ", "d", "a", "t", "a", "'">>,
            <<" ", " ", " ", " ", " ", " ", " ", " ", "i", "n", "v", "a", "l", "i", "d", "_", "i", "n", "p", "u", "t", " ", "=", " ", "'", "'">>,
            <<" ", " ", " ", " ", " ", " ", " ", " ">>,
            <<" ", " ", " ", " ", " ", " ", " ", " ", "a", "s", "s", "e", "r", "t", " ", "s", "e", "l", "f", ".", "_", "v", "a", "l", "i", "d", "a", "t", "e", "_", "i", "n", "p", "u", "t", "(", "v", "a", "l", "i", "d", "_", "i", "n", "p", "u", "t", ")", " ", "=", "=", " ", "T", "r", "u", "e">>,
            <<" ", " ", " ", " ", " ", " ", " ", " ", "a", "s", "s", "e", "r", "t", " ", "s", "e", "l", "f", ".", "_", "v", "a", "l", "i", "d", "a", "t", "e", "_", "i", "n", "p", "u", "t", "(", "i", "n", "v", "a", "l", "i", "d", "_", "i", "n", "p", "u", "t", ")", " ", "=", "=", " ", "F", "a", "l", "s", "e">>,
            <<" ", " ", " ", " ", " ", " ", " ", " ", "a", "s", "s", "e", "r", "t", " ", "s", "e", "l", "f", ".", "_", "v", "a", "l", "i", "d", "a", "t", "e", "_", "i", "n", "p", "u", "t", "(", "N", "o", "n", "e", ")", " ", "=", "=", " ", "F", "a", "l", "s", "e">> >>
      [] category = <<"s", "e", "c", "u", "r", "i", "t", "y">> -> <<
            <<" ", " ", " ", " ", " ", " ", " ", " ", "#", " ", "T", "e", "s", "t", " ", "a", "u", "t", "h", "e", "n", "t", "i", "c", "a", "t", "i", "o", "n", "/", "a", "u", "t", "h", "o", "r", "i", "z", "a", "t", "i", "o", "n">>,
            <<" ", " ", " ", " ", " ", " ", " ", " ", "v", "a", "l", "i", "d", "_", "u", "s", "e", "r", " ", "=", " ", "'", "t", "e", "s", "t", "u", "s", "e", "r", "'">>,
            <<" ", " ", " ", " ", " ", " ", " ", " ", "v", "a", "l", "i", "d", "_", "p", "a", "s", "s", "w", "o", "r", "d", " ", "=", " ", "'", "p", "a", "s", "s", "w", "o", "r", "d", "1", "2", "3", "'">>,
            <<" ", " ", " ", " ", " ", " ", " ", " ", "i", "n", "v", "a", "l", "i", "d", "_", "p", "a", "s", "s", "w", "o", "r", "d", " ", "=", " ", "'", "1", "2", "3", "'">>,
            <<" ", " ", " ", " ", " ", " ", " ", " ">>,
            <<" ", " ", " ", " ", " ", " ", " ", " ", "a", "s", "s", "e", "r", "t", " ", "s", "e", "l", "f", ".", "_", "a", "u", "t", "h", "e", "n", "t", "i", "c", "a", "t", "e", "_", "u", "s", "e", "r", "(", "v", "a", "l", "i", "d", "_", "u", "s", "e", "r", ",", " ", "v", "a", "l", "i", "d", "_", "p", "a", "s", "s", "w", "o", "r", "d", ")", " ", "=", "=", " ", "T", "r", "u", "e">>,
            <<" ", " ", " ", " ", " ", " ", " ", " ", "a", "s", "s", "e", "r", "t", " ", "s", "e", "l", "f", ".", "_", "a", "u", "t", "h", "e", "n", "t", "i", "c", "a", "t", "e", "_", "u", "s", "e", "r", "(", "v", "a", "l", "i", "d", "_", "u", "s", "e", "r", ",", " ", "i", "n", "v", "a", "l", "i", "d", "_", "p", "a", "s", "s", "w", "o", "r", "d", ")", " ", "=", "=", " ", "F", "a", "l", "s", "e">>,
            <<" ", " ", " ", " ", " ", " ", " ", " ", "a", "s", "s", "e", "r", "t", " ", "s", "e", "l", "f", ".", "_", "a", "u", "t", "h", "e", "n", "t", "i", "c", "a", "t", "e", "_", "u", "s", "e", "r", "(", "'", "'", ",", " ", "v", "a", "l", "i", "d", "_", "p", "a", "s", "s", "w", "o", "r", "d", ")", " ", "=", "=", " ", "F", "a", "l", "s", "e">> >>
      [] category = <<"f", "u", "n", "c", "t", "i", "o", "n", "a", "l">> -> <<
            <<" ", " ", " ", " ", " ", " ", " ", " ", "#", " ", "T", "e", "s", "t", " ", "f", "u", "n", "c", "t", "i", "o", "n", "a", "l", " ", "r", "e", "q", "u", "i", "r", "e", "m", "e", "n", "t">>,
            <<" ", " ", " ", " ", " ", " ", " ", " ", "t", "e", "s", "t", "_", "d", "a", "t", "a", " ", "=", " ", "{", "'", "i", "d", "'", ":", " ", "1", ",", " ", "'", "n", "a", "m", "e", "'", ":", " ", "'", "t", "e", "s", "t", "'", "}">>,
            <<" ", " ", " ", " ", " ", " ", " ", " ", "e", "m", "p", "t", "y", "_", "d", "a", "t", "a", " ", "=", " ", "N", "o", "n", "e">>,
            <<" ", " ", " ", " ", " ", " ", " ", " ">>,
            <<" ", " ", " ", " ", " ", " ", " ", " ", "a", "s", "s", "e", "r", "t", " ", "s", "e", "l", "f", ".", "_", "s", "a", "v", "e", "_", "d", "a", "t", "a", "(", "t", "e", "s", "t", "_", "d", "a", "t", "a", ")", " ", "=", "=", " ", "T", "r", "u", "e">>,
            <<" ", " ", " ", " ", " ", " ", " ", " ", "a", "s", "s", "e", "r", "t", " ", "s", "e", "l", "f", ".", "_", "s", "a", "v", "e", "_", "d", "a", "t", "a", "(", "e", "m", "p", "t", "y", "_", "d", "a", "t", "a", ")", " ", "=", "=", " ", "F", "a", "l", "s", "e">>,
            <<" ", " ", " ", " ", " ", " ", " ", " ", "a", "s", "s", "e", "r", "t", " ", "l", "e", "n", "(", "s", "e", "l", "f", ".", "t", "e", "s", "t", "_", "d", "a", "t", "a", "[", "'", "d", "a", "t", "a", "'", "]", ")", " ", ">", "=", " ", "1">> >>
      [] category = <<"o", "u", "t", "p", "u", "t">> -> <<
            <<" ", " ", " ", " ", " ", " ", " ", " ", "#", " ", "T", "e", "s", "t", " ", "o", "u", "t", "p", "u", "t", "/", "d", "i", "s", "p", "l", "a", "y", " ", "f", "u", "n", "c", "t", "i", "o", "n", "a", "l", "i", "t", "y">>,
            <<" ", " ", " ", " ", " ", " ", " ", " ", "t", "e", "s", "t", "_", "m", "e", "s", "s", "a", "g", "e", " ", "=", " ", "'", "E", "r", "r", "o", "r", ":", " ", "I", "n", "v", "a", "l", "i", "d", " ", "i", "n", "p", "u", "t", "'">>,
            <<" ", " ", " ", " ", " ", " ", " ", " ", "e", "m", "p", "t", "y", "_", "m", "e", "s", "s", "a", "g", "e", " ", "=", " ", "'", "'">>,
            <<" ", " ", " ", " ", " ", " ", " ", " ">>,
            <<" ", " ", " ", " ", " ", " ", " ", " ", "r", "e", "s", "u", "l", "t", " ", "=", " ", "s", "e", "l", "f", ".", "_", "d", "i", "s", "p", "l", "a", "y", "_", "m", "e", "s", "s", "a", "g", "e", "(", "t", "e", "s", "t", "_", "m", "e", "s", "s", "a", "g", "e", ")">>,
            <<" ", " ", " ", " ", " ", " ", " ", " ", "a", "s", "s", "e", "r", "t", " ", "r", "e", "s", "u", "l", "t", " ", "i", "s", " ", "n", "o", "t", " ", "N", "o", "n", "e">>,
            <<" ", " ", " ", " ", " ", " ", " ", " ", "a", "s", "s", "e", "r", "t", " ", "r", "e", "s", "u", "l", "t", " ", "=", "=", " ", "t", "e", "s", "t", "_", "m", "e", "s", "s", "a", "g", "e">>,
            <<" ", " ", " ", " ", " ", " ", " ", " ", "a", "s", "s", "e", "r", "t", " ", "s", "e", "l", "f", ".", "_", "d", "i", "s", "p", "l", "a", "y", "_", "m", "e", "s", "s", "a", "g", "e", "(", "e", "m", "p", "t", "y", "_", "m", "e", "s", "s", "a", "g", "e", ")", " ", "i", "s", " ", "N", "o", "n", "e">> >>
      [] category = <<"p", "e", "r", "f", "o", "r", "m", "a", "n", "c", "e">> -> <<
            <<" ", " ", " ", " ", " ", " ", " ", " ", "#", " ", "T", "e", "s", "t", " ", "p", "e", "r", "f", "o", "r", "m", "a", "n", "c", "e", " ", "r", "e", "q", "u", "i", "r", "e", "m", "e", "n", "t">>,
            <<" ", " ", " ", " ", " ", " ", " ", " ", "i", "m", "p", "o", "r", "t", " ", "t", "i", "m", "e">>,
            <<" ", " ", " ", " ", " ", " ", " ", " ">>,
            <<" ", " ", " ", " ", " ", " ", " ", " ", "s", "t", "a", "r", "t", "_", "t", "i", "m", "e", " ", "=", " ", "t", "i", "m", "e", ".", "t", "i", "m", "e", "(", ")">>,
            <<" ", " ", " ", " ", " ", " ", " ", " ", "#", " ", "S", "i", "m", "u", "l", "a", "t", "e", " ", "f", "a", "s", "t", " ", "o", "p", "e", "r", "a", "t", "i", "o", "n">>,
            <<" ", " ", " ", " ", " ", " ", " ", " ", "t", "i", "m", "e", ".", "s", "l", "e", "e", "p", "(", "0", ".", "1", ")", " ", " ", "#", " ", "1", "0", "0", "m", "s", " ", "-", " ", "s", "h", "o", "u", "l", "d", " ", "p", "a", "s", "s">>,
            <<" ", " ", " ", " ", " ", " ", " ", " ", "o", "p", "e", "r", "a", "t", "i", "o", "n", "_", "t", "i", "m", "e", " ", "=", " ", "t", "i", "m", "e", ".", "t", "i", "m", "e", "(", ")", " ", "-", " ", "s", "t", "a", "r", "t", "_", "t", "i", "m", "e">>,
            <<" ", " ", " ", " ", " ", " ", " ", " ">>,
            <<" ", " ", " ", " ", " ", " ", " ", " ", "a", "s", "s", "e", "r", "t", " ", "s", "e", "l", "f", ".", "_", "c", "h", "e", "c", "k", "_", "p", "e", "r", "f", "o", "r", "m", "a", "n", "c", "e", "(", "o", "p", "e", "r", "a", "t", "i", "o", "n", "_", "t", "i", "m", "e", ")", " ", "=", "=", " ", "T", "r", "u", "e">>,
            <<" ", " ", " ", " ", " ", " ", " ", " ", "#", " ", "T", "e", "s", "t", " ", "t", "h", "a", "t", " ", "s", "l", "o", "w", " ", "o", "p", "e", "r", "a", "t", "i", "o", "n", "s", " ", "f", "a", "i", "l">>,
            <<" ", " ", " ", " ", " ", " ", " ", " ", "a", "s", "s", "e", "r", "t", " ", "s", "e", "l", "f", ".", "_", "c", "h", "e", "c", "k", "_", "p", "e", "r", "f", "o", "r", "m", "a", "n", "c", "e", "(", "2", ".", "0", ")", " ", "=", "=", " ", "F", "a", "l", "s", "e">> >>
      [] category = <<"i", "n", "p", "u", "t">> -> <<
            <<" ", " ", " ", " ", " ", " ", " ", " ", "#", " ", "T", "e", "s", "t", " ", "i", "n", "p", "u", "t", " ", "h", "a", "n", "d", "l", "i", "n", "g">>,
            <<" ", " ", " ", " ", " ", " ", " ", " ", "v", "a", "l", "i", "d", "_", "i", "n", "p", "u", "t", "s", " ", "=", " ", "[", "'", "t", "e", "s", "t", "'", ",", " ", "{", "'", "k", "e", "y", "'", ":", " ", "'", "v", "a", "l", "u", "e", "'", "}", ",", " ", "[", "1", ",", " ", "2", ",", " ", "3", "]", "]">>,
            <<" ", " ", " ", " ", " ", " ", " ", " ", "i", "n", "v", "a", "l", "i", "d", "_", "i", "n", "p", "u", "t", "s", " ", "=", " ", "[", "N", "o", "n", "e", ",", " ", "'", "'", ",", " ", "[", "]", "]">>,
            <<" ", " ", " ", " ", " ", " ", " ", " ">>,
            <<" ", " ", " ", " ", " ", " ", " ", " ", "f", "o", "r", " ", "v", "a", "l", "i", "d", "_", "i", "n", "p", "u", "t", " ", "i", "n", " ", "v", "a", "l", "i", "d", "_", "i", "n", "p", "u", "t", "s", ":">>,
            <<" ", " ", " ", " ", " ", " ", " ", " ", " ", " ", " ", " ", "a", "s", "s", "e", "r", "t", " ", "s", "e", "l", "f", ".", "_", "v", "a", "l", "i", "d", "a", "t", "e", "_", "i", "n", "p", "u", "t", "(", "v", "a", "l", "i", "d", "_", "i", "n", "p", "u", "t", ")", " ", "=", "=", " ", "T", "r", "u", "e">>,
            <<" ", " ", " ", " ", " ", " ", " ", " ">>,
            <<" ", " ", " ", " ", " ", " ", " ", " ", "f", "o", "r", " ", "i", "n", "v", "a", "l", "i", "d", "_", "i", "n", "p", "u", "t", " ", "i", "n", " ", "i", "n", "v", "a", "l", "i", "d", "_", "i", "n", "p", "u", "t", "s", ":">>,
            <<" ", " ", " ", " ", " ", " ", " ", " ", " ", " ", " ", " ", "a", "s", "s", "e", "r", "t", " ", "s", "e", "l", "f", ".", "_", "v", "a", "l", "i", "d", "a", "t", "e", "_", "i", "n", "p", "u", "t", "(", "i", "n", "v", "a", "l", "i", "d", "_", "i", "n", "p", "u", "t", ")", " ", "=", "=", " ", "F", "a", "l", "s", "e">> >>
      [] OTHER -> <<
            <<" ", " ", " ", " ", " ", " ", " ", " ", "#", " ", "G", "e", "n", "e", "r", "i", "c", " ", "r", "e", "q", "u", "i", "r", "e", "m", "e", "n", "t", " ", "t", "e", "s", "t">>,
            <<" ", " ", " ", " ", " ", " ", " ", " ", "#", " ", "T", "O", "D", "O", ":", " ", "I", "m", "p", "l", "e", "m", "e", "n", "t", " ", "s", "p", "e", "c", "i", "f", "i", "c", " ", "t", "e", "s", "t", " ", "l", "o", "g", "i", "c", " ", "f", "o", "r", " ", "t", "h", "i", "s", " ", "r", "e", "q", "u", "i", "r", "e", "m", "e", "n", "t">>,
            <<" ", " ", " ", " ", " ", " ", " ", " ", "t", "e", "s", "t", "_", "p", "a", "s", "s", "e", "d", " ", "=", " ", "T", "r", "u", "e", " ", " ", "#", " ", "R", "e", "p", "l", "a", "c", "e", " ", "w", "i", "t", "h", " ", "a", "c", "t", "u", "a", "l", " ", "t", "e", "s", "t", " ", "l", "o", "g", "i", "c">>,
            <<" ", " ", " ", " ", " ", " ", " ", " ", "a", "s", "s", "e", "r", "t", " ", "t", "e", "s", "t", "_", "p", "a", "s", "s", "e", "d", " ", "=", "=", " ", "T", "r", "u", "e">> >>

\* requirement['category'] as the characters of the string
CategoryText(category) ==
    CASE category = "Validation" -> <<"V", "a", "l", "i", "d", "a", "t", "i", "o", "n">>
      [] category = "Security" -> <<"S", "e", "c", "u", "r", "i", "t", "y">>
      [] category = "Functional" -> <<"F", "u", "n", "c", "t", "i", "o", "n", "a", "l">>
      [] category = "Output" -> <<"O", "u", "t", "p", "u", "t">>
      [] category = "Performance" -> <<"P", "e", "r", "f", "o", "r", "m", "a", "n", "c", "e">>
      [] category = "Input" -> <<"I", "n", "p", "u", "t">>
      [] category = "SECURITY" -> <<"S", "E", "C", "U", "R", "I", "T", "Y">>
      [] category = "Other" -> <<"O", "t", "h", "e", "r">>

\* the dispatch with the .lower() of line 243 left out
GenerateMethodCaseSensitive(requirement) ==
    LET method_name == Generator_create_method_name(requirement.text)
        category == CategoryText(requirement.category)
    IN  << <<" ", " ", " ", " ", "d", "e", "f", " ", "t", "e", "s", "t", "_">> \o method_name \o <<"(", "s", "e", "l", "f", ")", ":">>,
           <<" ", " ", " ", " ", " ", " ", " ", " ", "\"", "\"", "\"", "T", "e", "s", "t", ":", " ">> \o requirement.text \o <<"\"", "\"", "\"">>,
           <<" ", " ", " ", " ", " ", " ", " ", " ", "#", " ", "T", "e", "s", "t", " ", "f", "o", "r", " ", "r", "e", "q", "u", "i", "r", "e", "m", "e", "n", "t", " ">> \o requirement.id \o <<" ", "-", " ">>
               \o CategoryText(requirement.category),
           <<" ", " ", " ", " ", " ", " ", " ", " ", "#", " ", "G", "e", "n", "e", "r", "a", "t", "e", "d", " ", "t", "e", "s", "t", " ", "i", "m", "p", "l", "e", "m", "e", "n", "t", "a", "t", "i", "o", "n">> >>
        \o Scaffold(category)

_generate_test_method(requirement) ==
    LET method_name == Generator_create_method_name(requirement.text)
        category == StrLower(CategoryText(requirement.category))
    IN  << <<" ", " ", " ", " ", "d", "e", "f", " ", "t", "e", "s", "t", "_">> \o method_name \o <<"(", "s", "e", "l", "f", ")", ":">>,
           <<" ", " ", " ", " ", " ", " ", " ", " ", "\"", "\"", "\"", "T", "e", "s", "t", ":", " ">> \o requirement.text \o <<"\"", "\"", "\"">>,
           <<" ", " ", " ", " ", " ", " ", " ", " ", "#", " ", "T", "e", "s", "t", " ", "f", "o", "r", " ", "r", "e", "q", "u", "i", "r", "e", "m", "e", "n", "t", " ">> \o requirement.id \o <<" ", "-", " ">>
               \o CategoryText(requirement.category),
           <<" ", " ", " ", " ", " ", " ", " ", " ", "#", " ", "G", "e", "n", "e", "r", "a", "t", "e", "d", " ", "t", "e", "s", "t", " ", "i", "m", "p", "l", "e", "m", "e", "n", "t", "a", "t", "i", "o", "n">> >>
        \o Scaffold(category)

\* `for req in requirements:` of generate_pytest_code, from element i on
RECURSIVE generate_methods(_, _, _)
generate_methods(reqs, i, code_lines) ==
    IF i > Len(reqs) THEN code_lines
    ELSE generate_methods(reqs, i + 1,
            code_lines \o _generate_test_method(reqs[i]) \o << <<>> >>)

generate_pytest_code(reqs) ==
    generate_methods(reqs, 1, SuiteHeader) \o SuiteHelpers

----------------------------------------------------------------------------
(* Inputs of the generator model *)

MaxSuite == 2

\* well-formed flat records: the six categories as the parser writes them, one
\* in capitals and one that is none of the six
SuitePool == {
    [id |-> <<"R", "E", "Q", "_", "0", "0", "1">>, text |-> <<"I", "t", "e", "m", " ", "1", " ", "m", "u", "s", "t", " ", "w", "o", "r", "k", ".">>, category |-> "Validation"],
    [id |-> <<"R", "E", "Q", "_", "0", "0", "2">>, text |-> <<"I", "t", "e", "m", " ", "2", " ", "m", "u", "s", "t", " ", "w", "o", "r", "k", ".">>, category |-> "Security"],
    [id |-> <<"R", "E", "Q", "_", "0", "0", "3">>, text |-> <<"I", "t", "e", "m", " ", "3", " ", "m", "u", "s", "t", " ", "w", "o", "r", "k", ".">>, category |-> "Functional"],
    [id |-> <<"R", "E", "Q", "_", "0", "0", "4">>, text |-> <<"I", "t", "e", "m", " ", "4", " ", "m", "u", "s", "t", " ", "w", "o", "r", "k", ".">>, category |-> "Output"],
    [id |-> <<"R", "E", "Q", "_", "0", "0", "5">>, text |-> <<"I", "t", "e", "m", " ", "5", " ", "m", "u", "s", "t", " ", "w", "o", "r", "k", ".">>, category |-> "Performance"],
    [id |-> <<"R", "E", "Q", "_", "0", "0", "6">>, text |-> <<"I", "t", "e", "m", " ", "6", " ", "m", "u", "s", "t", " ", "w", "o", "r", "k", ".">>, category |-> "Input"],
    [id |-> <<"R", "E", "Q", "_", "0", "0", "7">>, text |-> <<"I", "t", "e", "m", " ", "7", " ", "m", "u", "s", "t", " ", "w", "o", "r", "k", ".">>, category |-> "SECURITY"],
    [id |-> <<"R", "E", "Q", "_", "0", "0", "8">>, text |-> <<"I", "t", "e", "m", " ", "8", " ", "m", "u", "s", "t", " ", "w", "o", "r", "k", ".">>, category |-> "Other"] }

SuiteLists == UNION {[1..k -> SuitePool] : k \in 0..MaxSuite}

\* the text the input control is created with (lines 782-786)
DefaultText ==
    <<"T", "h", "e", " ", "a", "p", "p", "l", "i", "c", "a", "t", "i", "o", "n", " ", "s", "h", "o", "u", "l", "d", " ", "v", "a", "l", "i", "d", "a", "t", "e", " ", "u", "s", "e", "r", " ", "i", "n", "p", "u", "t", ".", "\n", "T", "h", "e", " ", "s", "y", "s", "t", "e", "m", " ", "m", "u", "s", "t", " ", "a", "u", "t", "h", "e", "n", "t", "i", "c", "a", "t", "e", " ", "u", "s", "e", "r", "s", " ", "b", "e", "f", "o", "r", "e", " ", "a", "l", "l", "o", "w", "i", "n", "g", " ", "a", "c", "c", "e", "s", "s", ".", "\n", "U", "s", "e", "r", "s", " ", "s", "h", "o", "u", "l", "d", " ", "b", "e", " ", "a", "b", "l", "e", " ", "t", "o", " ", "s", "a", "v", "e", " ", "t", "h", "e", "i", "r", " ", "w", "o", "r", "k", ".", "\n", "T", "h", "e", " ", "i", "n", "t", "e", "r", "f", "a", "c", "e", " ", "n", "e", "e", "d", "s", " ", "t", "o", " ", "d", "i", "s", "p", "l", "a", "y", " ", "e", "r", "r", "o", "r", " ", "m", "e", "s", "s", "a", "g", "e", "s", " ", "c", "l", "e", "a", "r", "l", "y", ".", "\n", "P", "e", "r", "f", "o", "r", "m", "a", "n", "c", "e", " ", "s", "h", "o", "u", "l", "d", " ", "b", "e", " ", "o", "p", "t", "i", "m", "i", "z", "e", "d", " ", "f", "o", "r", " ", "l", "a", "r", "g", "e", " ", "d", "a", "t", "a", "s", "e", "t", "s", ".">>

InitSuite ==
    /\ \/ /\ text = <<>>
          /\ forest = <<>>
          /\ suiteReqs \in SuiteLists
       \/ /\ text = DefaultText
          /\ forest = extract_requirements(text)
          /\ suiteReqs = get_all_requirements_flat(forest)
    /\ code = NotGenerated
    /\ credentials = NoCredentials
    /\ authResult = NotCalled
    /\ asserted = <<>>
    /\ lastReturn = NoCall
    /\ query = NoQuery
    /\ IdleRun
    /\ IdleFrame
    /\ IdleName

\* test_code = self.test_generator.generate_pytest_code(all_reqs)
GenerateSuite ==
    /\ code = NotGenerated
    /\ code' = generate_pytest_code(suiteReqs)
    /\ UNCHANGED <<suiteReqs, credentials, authResult, asserted,
                   forestVars, runVars, nameVars, frameVars>>

NextSuite == GenerateSuite

SpecSuite == InitSuite /\ [][NextSuite]_vars

IsTestDef(line) ==
    LET def == <<" ", " ", " ", " ", "d", "e", "f", " ", "t", "e", "s", "t", "_">> IN Prefix(line, Len(def)) = def

SixCategories ==
    {<<"v", "a", "l", "i", "d", "a", "t", "i", "o", "n">>, <<"s", "e", "c", "u", "r", "i", "t", "y">>, <<"f", "u", "n", "c", "t", "i", "o", "n", "a", "l">>, <<"o", "u", "t", "p", "u", "t">>, <<"p", "e", "r", "f", "o", "r", "m", "a", "n", "c", "e">>,
     <<"i", "n", "p", "u", "t">>}

\* the scaffold the claim gives a record: that of its category read without
\* regard to case, the generic one for any other value
ExpectedScaffold(requirement) ==
    LET c == StrLower(CategoryText(requirement.category))
    IN  IF c \in SixCategories THEN Scaffold(c) ELSE Scaffold(<<>>)

\* the only assert of the body compares a variable set to True with True
AlwaysPass(body) ==
    /\ \E i \in DOMAIN body : Prefix(body[i], 26) = <<" ", " ", " ", " ", " ", " ", " ", " ", "t", "e", "s", "t", "_", "p", "a", "s", "s", "e", "d", " ", "=", " ", "T", "r", "u", "e">>
    /\ \A i \in DOMAIN body :
           Prefix(body[i], 15) = <<" ", " ", " ", " ", " ", " ", " ", " ", "a", "s", "s", "e", "r", "t", " ">>
               => body[i] = <<" ", " ", " ", " ", " ", " ", " ", " ", "a", "s", "s", "e", "r", "t", " ", "t", "e", "s", "t", "_", "p", "a", "s", "s", "e", "d", " ", "=", "=", " ", "T", "r", "u", "e">>

\* the line of the def of element k when every element before it took the
\* four head lines, its scaffold and one empty line
RECURSIVE MethodStart(_)
MethodStart(k) ==
    IF k = 1 THEN Len(SuiteHeader) + 1
    ELSE MethodStart(k - 1) + 5 + Len(ExpectedScaffold(suiteReqs[k - 1]))

\* C21: generate_pytest_code returns, for every well-formed list, a suite that
\* holds setup, teardown and helpers and exactly one test method per element,
\* in list order, named 'test_' + derived name and carrying the scaffold of
\* its category compared without regard to case; any other category gets the
\* generic always-pass scaffold; the empty list gives no test method.
C21_OneMethodPerRequirement ==
    code # NotGenerated =>
        LET n == Len(suiteReqs)
            defs == {i \in DOMAIN code : IsTestDef(code[i])}
        IN  /\ Len(code) = MethodStart(n + 1) - 1 + Len(SuiteHelpers)
            /\ SubSeq(code, 1, Len(SuiteHeader)) = SuiteHeader
            /\ SubSeq(code, MethodStart(n + 1), Len(code)) = SuiteHelpers
            /\ defs = {MethodStart(k) : k \in 1..n}
            /\ \A k \in 1..n :
                 LET r == suiteReqs[k]
                     body == ExpectedScaffold(r)
                     at == MethodStart(k)
                 IN  /\ code[at] = <<" ", " ", " ", " ", "d", "e", "f", " ", "t", "e", "s", "t", "_">>
                            \o DerivedName(r.text,
                                   LAMBDA c : IsAlnum(c) \/ c = "_" \/ IsSpace(c))
                            \o <<"(", "s", "e", "l", "f", ")", ":">>
                     /\ SubSeq(code, at + 4, at + 3 + Len(body)) = body
                     /\ code[at + 4 + Len(body)] = <<>>
            /\ \A c, d \in SixCategories : Scaffold(c) = Scaffold(d) => c = d
            /\ \A c \in SixCategories : Scaffold(c) # Scaffold(<<>>)
            /\ AlwaysPass(Scaffold(<<>>))
            /\ n = 0 => code = SuiteHeader \o SuiteHelpers

\* a suite generated for a record whose category is written in capitals
\* followed by one whose category is none of the six
C21_Witness ==
    /\ code # NotGenerated
    /\ Len(suiteReqs) = 2
    /\ suiteReqs[1].category = "SECURITY"
    /\ suiteReqs[2].category = "Other"
    /\ Cardinality({i \in DOMAIN code : IsTestDef(code[i])}) = 2

\* the suite of the default text: ids, categories and, in order, the names of
\* the test methods
SampleSuite(names) ==
    /\ [i \in DOMAIN suiteReqs |-> suiteReqs[i].id] =
           <<<<"R", "E", "Q", "_", "0", "0", "1">>, <<"R", "E", "Q", "_", "0", "0", "2">>, <<"R", "E", "Q", "_", "0", "0", "3">>, <<"R", "E", "Q", "_", "0", "0", "4">>, <<"R", "E", "Q", "_", "0", "0", "5">>>>
    /\ [i \in DOMAIN suiteReqs |-> suiteReqs[i].category] =
           <<"Validation", "Security", "Functional", "Output", "Performance">>
    /\ SelectSeq(code, IsTestDef) =
           [i \in DOMAIN names |-> <<" ", " ", " ", " ", "d", "e", "f", " ">> \o names[i] \o <<"(", "s", "e", "l", "f", ")", ":">>]

----------------------------------------------------------------------------
(* The helper _authenticate_user written into every suite and the body     *)
(* written for a Security requirement, as Python runs them.                *)

\* `> 8` in place of `>= 8`
AuthenticateLongerThan8(username, password) ==
    IF username # <<>> /\ password # <<>> /\ Len(password) > 8 THEN TRUE ELSE FALSE

\* if username and password and len(password) >= 8: return True / return False
_authenticate_user(username, password) ==
    IF username # <<>> /\ password # <<>> /\ Len(password) >= 8 THEN TRUE ELSE FALSE

\* the three assert statements of the Security body with the values its
\* assignments give the names
SecurityCalls ==
    LET valid_user == <<"t", "e", "s", "t", "u", "s", "e", "r">>
        valid_password == <<"p", "a", "s", "s", "w", "o", "r", "d", "1", "2", "3">>
        invalid_password == <<"1", "2", "3">>
    IN  << [username |-> valid_user, password |-> valid_password, equals |-> TRUE],
           [username |-> valid_user, password |-> invalid_password, equals |-> FALSE],
           [username |-> <<>>, password |-> valid_password, equals |-> FALSE] >>

MaxPassword == 9

Usernames == {<<>>, <<"u">>, <<"t", "e", "s", "t", "u", "s", "e", "r">>}

Passwords == {[i \in 1..n |-> "p"] : n \in 0..MaxPassword} \cup {<<"p", "a", "s", "s", "w", "o", "r", "d", "1", "2", "3">>, <<"1", "2", "3">>}

InitHelper ==
    /\ credentials \in [username : Usernames, password : Passwords]
    /\ authResult = NotCalled
    /\ asserted = <<>>
    /\ suiteReqs = <<>>
    /\ code = NotGenerated
    /\ text = <<>>
    /\ forest = <<>>
    /\ lastReturn = NoCall
    /\ query = NoQuery
    /\ IdleRun
    /\ IdleFrame
    /\ IdleName

\* self._authenticate_user(username, password)
Authenticate ==
    /\ authResult = NotCalled
    /\ authResult' = [value |->
            _authenticate_user(credentials.username, credentials.password)]
    /\ UNCHANGED <<suiteReqs, code, credentials, asserted,
                   forestVars, runVars, nameVars, frameVars>>

\* the body of a Security test method: each assert evaluated in turn
RunSecurityBody ==
    /\ asserted = <<>>
    /\ asserted' = [i \in DOMAIN SecurityCalls |->
                      _authenticate_user(SecurityCalls[i].username,
                                         SecurityCalls[i].password)
                          = SecurityCalls[i].equals]
    /\ UNCHANGED <<suiteReqs, code, credentials, authResult,
                   forestVars, runVars, nameVars, frameVars>>

NextHelper == Authenticate \/ RunSecurityBody

SpecHelper == InitHelper /\ [][NextHelper]_vars

\* C22: _authenticate_user returns true exactly when user and password are
\* both non-empty and the password has at least 8 characters; the Security
\* body asserts it true for a password of length >= 8, false for one of
\* length < 8 and false for an empty user, and each of its assertions holds.
C22_HelperAndSecurityBody ==
    /\ authResult # NotCalled =>
         authResult.value = (/\ Len(credentials.username) > 0
                       /\ Len(credentials.password) >= 8)
    /\ asserted # <<>> =>
         /\ \A i \in DOMAIN asserted : asserted[i]
         /\ Len(asserted) = 3
    /\ LET calls == SecurityCalls
       IN  /\ calls[1].username # <<>> /\ Len(calls[1].password) >= 8 /\ calls[1].equals
           /\ calls[2].username # <<>> /\ Len(calls[2].password) < 8 /\ ~calls[2].equals
           /\ calls[3].username = <<>> /\ ~calls[3].equals
    /\ LET body == Scaffold(<<"s", "e", "c", "u", "r", "i", "t", "y">>)
       IN  /\ \E i \in DOMAIN body : body[i] = <<" ", " ", " ", " ", " ", " ", " ", " ", "v", "a", "l", "i", "d", "_", "u", "s", "e", "r", " ", "=", " ", "'", "t", "e", "s", "t", "u", "s", "e", "r", "'">>
           /\ \E i \in DOMAIN body : body[i] = <<" ", " ", " ", " ", " ", " ", " ", " ", "v", "a", "l", "i", "d", "_", "p", "a", "s", "s", "w", "o", "r", "d", " ", "=", " ", "'", "p", "a", "s", "s", "w", "o", "r", "d", "1", "2", "3", "'">>
           /\ \E i \in DOMAIN body : body[i] = <<" ", " ", " ", " ", " ", " ", " ", " ", "i", "n", "v", "a", "l", "i", "d", "_", "p", "a", "s", "s", "w", "o", "r", "d", " ", "=", " ", "'", "1", "2", "3", "'">>
           /\ SelectSeq(body, LAMBDA l : Prefix(l, 15) = <<" ", " ", " ", " ", " ", " ", " ", " ", "a", "s", "s", "e", "r", "t", " ">>) =
                << <<" ", " ", " ", " ", " ", " ", " ", " ", "a", "s", "s", "e", "r", "t", " ", "s", "e", "l", "f", ".", "_", "a", "u", "t", "h", "e", "n", "t", "i", "c", "a", "t", "e", "_", "u", "s", "e", "r", "(", "v", "a", "l", "i", "d", "_", "u", "s", "e", "r", ",", " ", "v", "a", "l", "i", "d", "_", "p", "a", "s", "s", "w", "o", "r", "d", ")", " ", "=", "=", " ", "T", "r", "u", "e">>,
                   <<" ", " ", " ", " ", " ", " ", " ", " ", "a", "s", "s", "e", "r", "t", " ", "s", "e", "l", "f", ".", "_", "a", "u", "t", "h", "e", "n", "t", "i", "c", "a", "t", "e", "_", "u", "s", "e", "r", "(", "v", "a", "l", "i", "d", "_", "u", "s", "e", "r", ",", " ", "i", "n", "v", "a", "l", "i", "d", "_", "p", "a", "s", "s", "w", "o", "r", "d", ")", " ", "=", "=", " ", "F", "a", "l", "s", "e">>,
                   <<" ", " ", " ", " ", " ", " ", " ", " ", "a", "s", "s", "e", "r", "t", " ", "s", "e", "l", "f", ".", "_", "a", "u", "t", "h", "e", "n", "t", "i", "c", "a", "t", "e", "_", "u", "s", "e", "r", "(", "'", "'", ",", " ", "v", "a", "l", "i", "d", "_", "p", "a", "s", "s", "w", "o", "r", "d", ")", " ", "=", "=", " ", "F", "a", "l", "s", "e">> >>
    /\ \E i \in DOMAIN SuiteHelpers :
           SuiteHelpers[i] = <<" ", " ", " ", " ", "d", "e", "f", " ", "_", "a", "u", "t", "h", "e", "n", "t", "i", "c", "a", "t", "e", "_", "u", "s", "e", "r", "(", "s", "e", "l", "f", ",", " ", "u", "s", "e", "r", "n", "a", "m", "e", ",", " ", "p", "a", "s", "s", "w", "o", "r", "d", ")", ":">>

\* the helper called with a user and a password of exactly 8 characters, and
\* the Security body run
C22_Witness ==
    /\ authResult = [value |-> TRUE]
    /\ credentials.username # <<>>
    /\ Len(credentials.password) = 8
    /\ asserted # <<>>

----------------------------------------------------------------------------
(* Runner claims: notifications and correlation *)

Messages == [i \in DOMAIN progress |-> progress[i].message]

Count(seq, x) == Cardinality({i \in DOMAIN seq : seq[i] = x})

\* C24: with a callback, run_tests calls it once before the process is
\* invoked, then, if the process finished within the timeout, once after the
\* process ended and before any output is parsed, then once after parsing
\* completed; on a timeout or an execution exception the 'parsing' and
\* 'completed' notifications are never issued and a timeout / error
\* notification is issued instead.
C24_ProgressOrder ==
    callback =>
        LET msgs == Messages
            starting == "Starting test execution..."
            parsing == "Parsing test results..."
            completed == "Test execution completed"
            timedOut == "Test execution timed out"
            failed == "Test execution error"
        IN  /\ proc # NoProc => (msgs # <<>> /\ msgs[1] = starting)
            /\ Count(msgs, starting) <= 1
            /\ Count(msgs, parsing) <= 1
            /\ Count(msgs, completed) <= 1
            /\ parsing \in Range(msgs) =>
                   (proc.outcome = "finished" /\ Len(msgs) >= 2 /\ msgs[2] = parsing)
            /\ (parse.lineNo > 0 \/ parse.returned) => parsing \in Range(msgs)
            /\ completed \in Range(msgs) =>
                   (parse.returned /\ Len(msgs) >= 3 /\ msgs[3] = completed)
            /\ (Terminal /\ parse.returned) => completed \in Range(msgs)
            /\ (timedOut \in Range(msgs) \/ failed \in Range(msgs)) =>
                   (parsing \notin Range(msgs) /\ completed \notin Range(msgs))
            /\ (Terminal /\ caught.type = "TimeoutExpired") => timedOut \in Range(msgs)
            /\ (Terminal /\ caught.type = "Exception") => failed \in Range(msgs)

IsSessionMarker(rawline) ==
    LET line == Strip(rawline)
    IN  Contains(StrLower(line), <<"t", "e", "s", "t", " ", "s", "e", "s", "s", "i", "o", "n", " ", "s", "t", "a", "r", "t", "s">>) \/ Contains(line, <<"=", "=", "=", "=", "=", "=", "=">>)

\* the method token of a line that reports a result, <<>> for any other line
ResultToken(rawline) ==
    LET line == Strip(rawline)
        parts == SplitOn(line, <<":", ":">>, 1, <<>>)
        words == SplitWords(parts[Len(parts)], 1, <<>>)
    IN  IF /\ Contains(line, <<":", ":", "t", "e", "s", "t", "_">>)
           /\ \E marker \in {<<"P", "A", "S", "S", "E", "D">>, <<"F", "A", "I", "L", "E", "D">>, <<"E", "R", "R", "O", "R">>} : Contains(line, marker)
           /\ Len(parts) >= 3
           /\ words # <<>>
        THEN words[1]
        ELSE <<>>

\* the pairs <<k, token>> of the result lines among the first n lines of the
\* output that come after the first session-start marker
ResultLines(n) ==
    LET markers == {j \in 1..n : IsSessionMarker(proc.lines[j])}
    IN  IF markers = {} THEN {}
        ELSE LET first == CHOOSE j \in markers : \A i \in markers : j <= i
                 tokens == {<<k, ResultToken(proc.lines[k])>> :
                               k \in ((first + 1)..n) \ markers}
             IN  {p \in tokens : p[2] # <<>>}

\* the status the claim gives a result line
StatusByPrecedence(rawline) ==
    IF Contains(rawline, <<"P", "A", "S", "S", "E", "D">>) THEN "passed"
    ELSE IF Contains(rawline, <<"F", "A", "I", "L", "E", "D">>) THEN "failed"
    ELSE "error"

NameOf(requirement) ==
    <<"t", "e", "s", "t", "_">> \o DerivedName(requirement.text,
                             LAMBDA c : IsAlnum(c) \/ c = "_" \/ IsSpace(c))

\* C26: correlation is per requirement: when the output after the session
\* start holds a result line for the method derived from a requirement's
\* text, the outcome of that requirement carries the status of such a line and
\* is not skipped, also when several requirements derive the same method name.
C26_CorrelationPerRequirement ==
    parse.returned =>
        \A i \in DOMAIN requirements :
            LET r == requirements[i]
                hits == {p[1] : p \in {q \in ResultLines(Len(proc.lines)) :
                                            q[2] = NameOf(r)}}
            IN  hits # {} =>
                    /\ r.id \in DOMAIN parse.results
                    /\ parse.results[r.id].status # "skipped"
                    /\ parse.results[r.id].status \in
                           {StatusByPrecedence(proc.lines[k]) : k \in hits}

\* C27: the status recorded for a matched result line is passed if the line
\* contains PASSED, otherwise failed if it contains FAILED, otherwise error;
\* when several lines match the same requirement, the last of them decides.
\* Read where the frame of the parse is written: after each line and at the
\* return of the parse (no later step of the run assigns it).
C27_StatusPrecedenceLastWins ==
    pc \in {"parse", "notify_completed"} =>
    LET lookup == method_to_req(requirements)
        matched == {p \in ResultLines(parse.lineNo) : p[2] \in DOMAIN lookup}
    IN  \A id \in Ids(requirements) :
            LET hits == {p[1] : p \in {q \in matched : lookup[q[2]] = id}}
            IN  hits # {} =>
                    LET last == CHOOSE k \in hits : \A j \in hits : j <= k
                    IN  /\ id \in DOMAIN parse.results
                        /\ parse.results[id].status
                               = StatusByPrecedence(proc.lines[last])

\* a line holding FAILED and ERROR was read after a line holding PASSED for
\* the same requirement
C27_Witness ==
    /\ pc = "parse"
    /\ parse.lineNo = 3
    /\ parse.matched = 2
    /\ Contains(proc.lines[2], <<"P", "A", "S", "S", "E", "D">>)
    /\ Contains(proc.lines[3], <<"F", "A", "I", "L", "E", "D">>)
    /\ Contains(proc.lines[3], <<"E", "R", "R", "O", "R">>)
    /\ \E id \in DOMAIN parse.results : parse.results[id].status = "failed"

\* C28: no outcome record of run_tests has the status 'unknown': in every
\* state the status of every record is passed, failed, error or skipped.
C28_NoUnknownStatus ==
    /\ \A id \in DOMAIN results :
           results[id].status \in {"passed", "failed", "error", "skipped"}
    /\ \A id \in DOMAIN parse.results :
           parse.results[id].status \in {"passed", "failed", "error", "skipped"}

\* a returned map with a record taken from a line that holds ERROR only and a
\* skipped record
C28_Witness ==
    /\ pc = "returned"
    /\ \E id \in DOMAIN results :
           results[id] = Outcome("error", <<"Test error - check syntax">>, 0)
    /\ \E id \in DOMAIN results : results[id].status = "skipped"

----------------------------------------------------------------------------
(* Category of a child *)

\* the category the rules of the extractor give a text
RuleCategory(t) ==
    LET lowered == StrLower(t)
        hit == {r \in DOMAIN CategoryRules :
                    \E w \in CategoryRules[r].words : Contains(lowered, w)}
        first == CHOOSE r \in hit : \A q \in hit : r <= q
    IN  IF hit = {} THEN "Functional" ELSE CategoryRules[first].category

\* C25: the category add_sub_requirement gives a child is the category the
\* rules of the extractor give the child's stored, normalized text, for every
\* text argument.
C25_ChildCategoryOfStoredText ==
    lastReturn.op = "add" =>
        lastReturn.ret.category = RuleCategory(lastReturn.ret.text)

----------------------------------------------------------------------------
(* MainFrame and RequirementsPanel: the handlers of the UI thread, the     *)
(* worker thread of a test run and the calls it posts with wx.CallAfter.   *)
(* A handler runs to its end before the next event is taken.               *)

MaxFrameNodes == 2
MaxRuns == 2

\* the calls of progress_callback in one run_tests: at most the three of the
\* try block, or 'starting', 'parsing' and the one of an except clause
MaxNotifications == 3

\* values of the input control
FrameTexts == { <<>>, <<"N", "o", "t", "h", "i", "n", "g", " ", "h", "e", "r", "e", ".">>, <<" ", "I", "t", " ", "m", "u", "s", "t", " ", "w", "o", "r", "k", ".", " ">> }

\* the progress dialog is created with parent=self and without PD_APP_MODAL:
\* while it exists the frame, its parent, takes no input
FrameInput == progress_dlg = NoDialog

InitFrame ==
    /\ IdleFrame
    /\ text = <<>>
    /\ forest = <<>>
    /\ lastReturn = NoCall
    /\ query = NoQuery
    /\ IdleRun
    /\ IdleSuite
    /\ IdleName

\* a handler of the panel mutated the records of self.requirements in place
\* into newList and called update_requirements(self.requirements); the list of
\* the frame is the same object whenever it is not empty
UpdateInPlace(newList) ==
    /\ panel_requirements' = newList
    /\ current_requirements' =
           IF current_requirements # <<>> THEN newList ELSE current_requirements
    /\ run_tests_btn' = (Len(newList) > 0)

\* MainFrame.on_generate
on_generate ==
    /\ FrameInput
    /\ \E t \in FrameTexts :
        LET input_text == Strip(t)
            extracted == extract_requirements(input_text)
        IN  IF input_text = <<>>
            THEN UNCHANGED <<current_requirements, panel_requirements,
                             test_code_text, run_tests_btn>>
            ELSE IF extracted = <<>>
            THEN /\ current_requirements' = extracted
                 /\ UNCHANGED <<panel_requirements, test_code_text, run_tests_btn>>
            ELSE /\ current_requirements' = extracted
                 /\ panel_requirements' = extracted
                 /\ run_tests_btn' = (Len(extracted) > 0)
                 /\ test_code_text' = TRUE
    /\ UNCHANGED <<progress_dlg, threads, callAfter, runs,
                   forestVars, runVars, nameVars, suiteVars>>

\* MainFrame.on_new
on_new ==
    /\ FrameInput
    /\ test_code_text' = FALSE
    /\ current_requirements' = <<>>
    /\ panel_requirements' = <<>>
    /\ run_tests_btn' = FALSE
    /\ UNCHANGED <<progress_dlg, threads, callAfter, runs,
                   forestVars, runVars, nameVars, suiteVars>>

\* RequirementsPanel.on_add_sub_requirement for the record at p, the dialog
\* closed with OK and the value t
on_add_sub_requirement ==
    /\ FrameInput
    /\ Cardinality(Paths(panel_requirements)) < MaxFrameNodes
    /\ \E p \in Paths(panel_requirements), t \in SubTexts :
        LET sub_text == Strip(t)
            r == add_sub_requirement(NodeAt(panel_requirements, p), sub_text)
        IN  IF sub_text = <<>>
            THEN UNCHANGED <<current_requirements, panel_requirements,
                             test_code_text, run_tests_btn>>
            ELSE /\ UpdateInPlace(ReplaceAt(panel_requirements, p, r.parent))
                 /\ test_code_text' = TRUE
    /\ UNCHANGED <<progress_dlg, threads, callAfter, runs,
                   forestVars, runVars, nameVars, suiteVars>>

\* RequirementsPanel.on_delete_sub_requirement for the child at p, the
\* deletion confirmed: the index is that of the first child with the id
on_delete_sub_requirement ==
    /\ FrameInput
    /\ \E p \in {q \in Paths(panel_requirements) : Len(q) >= 2} :
        LET parent_req == NodeAt(panel_requirements, ParentPath(p))
            sub_req == NodeAt(panel_requirements, p)
            same == {i \in DOMAIN parent_req.sub_requirements :
                        parent_req.sub_requirements[i].id = sub_req.id}
            sub_index == (CHOOSE i \in same : \A j \in same : i <= j) - 1
            r == remove_sub_requirement(parent_req, sub_index)
        IN  /\ UpdateInPlace(ReplaceAt(panel_requirements, ParentPath(p), r.parent))
            /\ test_code_text' = TRUE
    /\ UNCHANGED <<progress_dlg, threads, callAfter, runs,
                   forestVars, runVars, nameVars, suiteVars>>

\* RequirementsPanel.on_check_all (b) and on_uncheck_all (~b)
on_check_all ==
    /\ FrameInput
    /\ \E b \in BOOLEAN :
        UpdateInPlace([i \in DOMAIN panel_requirements |->
                          SetField(panel_requirements[i], "checked", b)])
    /\ UNCHANGED <<test_code_text, progress_dlg, threads, callAfter, runs,
                   forestVars, runVars, nameVars, suiteVars>>

\* RequirementsPanel.on_run_tests -> MainFrame.run_tests: the button is
\* pressed, which an enabled button allows
run_tests ==
    /\ FrameInput
    /\ run_tests_btn
    /\ Len(runs) < MaxRuns
    /\ IF current_requirements = <<>> \/ ~test_code_text
       THEN UNCHANGED <<run_tests_btn, progress_dlg, threads, runs>>
       ELSE /\ run_tests_btn' = FALSE
            /\ progress_dlg' = [run |-> Len(runs) + 1, cancelled |-> FALSE]
            /\ threads' = Append(threads, [sent |-> 0, ended |-> FALSE])
            /\ runs' = Append(runs, "outstanding")
    /\ UNCHANGED <<current_requirements, panel_requirements, test_code_text,
                   callAfter, forestVars, runVars, nameVars, suiteVars>>

\* worker thread: progress_callback(message) = wx.CallAfter(_update_progress)
PostProgress ==
    /\ \E n \in DOMAIN threads :
        /\ ~threads[n].ended
        /\ threads[n].sent < MaxNotifications
        /\ threads' = [threads EXCEPT ![n].sent = @ + 1]
        /\ callAfter' = Append(callAfter, [fn |-> "_update_progress", run |-> n])
    /\ UNCHANGED <<current_requirements, panel_requirements, test_code_text,
                   run_tests_btn, progress_dlg, runs,
                   forestVars, runVars, nameVars, suiteVars>>

\* worker thread: run_tests returned (after two or three notifications) and
\* wx.CallAfter(self._update_test_results, results) is posted
PostResults ==
    /\ \E n \in DOMAIN threads :
        /\ ~threads[n].ended
        /\ threads[n].sent >= 2
        /\ threads' = [threads EXCEPT ![n].ended = TRUE]
        /\ callAfter' = Append(callAfter, [fn |-> "_update_test_results", run |-> n])
    /\ UNCHANGED <<current_requirements, panel_requirements, test_code_text,
                   run_tests_btn, progress_dlg, runs,
                   forestVars, runVars, nameVars, suiteVars>>

\* worker thread: run_tests raised (the temporary file could not be written,
\* before the first notification) and wx.CallAfter(self._handle_test_error)
\* is posted
PostError ==
    /\ \E n \in DOMAIN threads :
        /\ ~threads[n].ended
        /\ threads[n].sent = 0
        /\ threads' = [threads EXCEPT ![n].ended = TRUE]
        /\ callAfter' = Append(callAfter, [fn |-> "_handle_test_error", run |-> n])
    /\ UNCHANGED <<current_requirements, panel_requirements, test_code_text,
                   run_tests_btn, progress_dlg, runs,
                   forestVars, runVars, nameVars, suiteVars>>

\* the user presses Cancel on the progress dialog
CancelPressed ==
    /\ progress_dlg # NoDialog
    /\ ~progress_dlg.cancelled
    /\ progress_dlg' = [progress_dlg EXCEPT !.cancelled = TRUE]
    /\ runs' = [runs EXCEPT ![progress_dlg.run] = "cancelled"]
    /\ UNCHANGED <<current_requirements, panel_requirements, test_code_text,
                   run_tests_btn, threads, callAfter,
                   forestVars, runVars, nameVars, suiteVars>>

\* the UI thread takes the oldest posted call: _update_progress,
\* _update_test_results or _handle_test_error, the last two starting with
\* _cleanup_progress_dialog
Dispatch ==
    /\ callAfter # <<>>
    /\ LET call == Head(callAfter)
       IN  IF call.fn = "_update_progress"
           THEN IF progress_dlg # NoDialog /\ progress_dlg.cancelled
                THEN /\ progress_dlg' = NoDialog
                     /\ run_tests_btn' = TRUE
                     /\ UNCHANGED runs
                ELSE UNCHANGED <<progress_dlg, run_tests_btn, runs>>
           ELSE /\ progress_dlg' = NoDialog
                /\ run_tests_btn' = TRUE
                /\ runs' = [runs EXCEPT ![call.run] = "delivered"]
    /\ callAfter' = Tail(callAfter)
    /\ UNCHANGED <<current_requirements, panel_requirements, test_code_text,
                   threads, forestVars, runVars, nameVars, suiteVars>>

NextFrame ==
    \/ on_generate
    \/ on_new
    \/ on_add_sub_requirement
    \/ on_delete_sub_requirement
    \/ on_check_all
    \/ run_tests
    \/ PostProgress
    \/ PostResults
    \/ PostError
    \/ CancelPressed
    \/ Dispatch

SpecFrame == InitFrame /\ [][NextFrame]_vars

\* C29: from the start of a test run until its result or error is delivered
\* on the UI thread, or the user cancels, the Run Tests button stays disabled,
\* under every interleaving of UI events and worker progress, so that no
\* second run is started while one is outstanding and not cancelled.
C29_DisabledWhileOutstanding ==
    (\E n \in DOMAIN runs : runs[n] = "outstanding") => ~run_tests_btn

\* C30: after every UI operation the forest of the frame, used by run_tests,
\* and the forest of the checklist panel are the same forest.
C30_FrameAndPanelSameForest ==
    current_requirements = panel_requirements

\* the worker threads run and the UI thread keeps taking posted calls
FairSpecFrame ==
    /\ SpecFrame
    /\ WF_vars(PostProgress)
    /\ WF_vars(PostResults)
    /\ WF_vars(PostError)
    /\ WF_vars(Dispatch)

\* the second half of C29: after every started run the Run Tests button is
\* enabled again in the end
C29_Reenabled ==
    \A n \in 1..MaxRuns :
        (Len(runs) >= n /\ runs[n] # "delivered") ~> run_tests_btn

====
